---- MODULE Spec2Model ----
(***************************************************************************)
(* Model of the news updater (update_news/__init__.py): the adaptive       *)
(* fetch - merge - cache pipeline.  One run of main() processes the topics *)
(* of news_sources one after the other (or through one combined request),  *)
(* every provider call is one step whose outcome the provider chooses, and *)
(* every topic ends with merge -> retention -> save.                       *)
(*                                                                         *)
(* Encoding of dates.  A stored date is a string.  The code uses it in two *)
(* ways: as a sort key (string comparison) and as the argument of          *)
(* datetime.strptime(.., "%Y-%m-%d").  A date is modelled by a code:       *)
(*    0            the empty string "" (also: the key is missing)          *)
(*    1..MaxDay    the ISO string of day number d (zero padded, so that    *)
(*                 string order is day order)                              *)
(*    MaxDay+1     a non-empty string that strptime rejects, such as       *)
(*                 "invalid-date" ("i" sorts after every digit)            *)
(***************************************************************************)
EXTENDS Integers, Sequences, FiniteSets, TLC

\* ------------------------------------------------------------------------
\* Bounds of the model
\* ------------------------------------------------------------------------
MaxDay == 3
MaxLen == 2
MaxApiCalls == 3
MaxPages == 2
MaxRuns == 2

\* ------------------------------------------------------------------------
\* Dates
\* ------------------------------------------------------------------------
EmptyDate == 0
InvalidDate == MaxDay + 1
Days == 1..MaxDay
DateCodes == 0..(MaxDay + 1)

\* datetime.now(timezone.utc).date(): the day of the run
Today == MaxDay

\* datetime.strptime(s, DATE_FORMAT) succeeds exactly on the ISO strings
ParsesAsDate(d) == d \in Days

\* x.get("date", ""): the sort key, compared as a string
DateKey(article) == article.date

\* ------------------------------------------------------------------------
\* list.sort(key=lambda x: x.get("date", ""), reverse=True)
\* Python's sort is stable, also with reverse=True: records with equal keys
\* keep their relative order.
\* ------------------------------------------------------------------------
RECURSIVE InsertByDateDesc(_, _)
InsertByDateDesc(sorted, item) ==
    IF sorted = <<>> THEN <<item>>
    ELSE IF DateKey(Head(sorted)) >= DateKey(item)
         THEN <<Head(sorted)>> \o InsertByDateDesc(Tail(sorted), item)
         ELSE <<item>> \o sorted

RECURSIVE SortByDateDescFrom(_, _)
SortByDateDescFrom(acc, items) ==
    IF items = <<>> THEN acc
    ELSE SortByDateDescFrom(InsertByDateDesc(acc, Head(items)), Tail(items))

Unsorted(items) == items

\* an ascending stable sort read backwards: descending, but ties reversed
RECURSIVE Reversed(_)
Reversed(items) ==
    IF items = <<>> THEN <<>> ELSE Append(Reversed(Tail(items)), Head(items))

ReverseOfAscending(items) == SortByDateDescFrom(<<>>, Reversed(items))

SortByDateDesc(items) == SortByDateDescFrom(<<>>, items)

\* ------------------------------------------------------------------------
\* filter_articles_by_retention
\* ------------------------------------------------------------------------
cutoff_date(retention_days) == Today - retention_days

\* a loop body that takes an empty date for one that does not parse
RetentionKeepsUndated(item, retention_days) ==
    IF ParsesAsDate(item.date) THEN item.date >= cutoff_date(retention_days)
    ELSE TRUE

RetentionKeepsBuggy(item, retention_days) ==
    IF item.date = EmptyDate THEN FALSE
    ELSE IF ParsesAsDate(item.date) THEN item.date > cutoff_date(retention_days)
    ELSE TRUE

\* the body of the loop: does the record reach filtered_items
RetentionKeeps(item, retention_days) ==
    IF item.date = EmptyDate THEN FALSE
    ELSE IF ParsesAsDate(item.date) THEN item.date >= cutoff_date(retention_days)
    ELSE TRUE

RECURSIVE RetentionLoop(_, _)
RetentionLoop(news_items, retention_days) ==
    IF news_items = <<>> THEN <<>>
    ELSE (IF RetentionKeeps(Head(news_items), retention_days)
          THEN <<Head(news_items)>> ELSE <<>>)
         \o RetentionLoop(Tail(news_items), retention_days)

\* a filter without the early return for retention_days <= 0
filter_articles_by_retention_always(news_items, retention_days) ==
    RetentionLoop(news_items, retention_days)

filter_articles_by_retention(news_items, retention_days) ==
    IF news_items = <<>> \/ retention_days <= 0 THEN news_items
    ELSE RetentionLoop(news_items, retention_days)

\* ------------------------------------------------------------------------
\* merge_news_articles
\* articles_dict is a Python dict: assigning to a key that is present keeps
\* the key's position and replaces the value, a new key goes to the end.
\* The dict is modelled by the sequence of its values in key order.
\* ------------------------------------------------------------------------
RECURSIVE DictPut(_, _)
DictPut(values, article) ==
    IF values = <<>> THEN <<article>>
    ELSE IF Head(values).url = article.url THEN <<article>> \o Tail(values)
    ELSE <<Head(values)>> \o DictPut(Tail(values), article)

RECURSIVE DictPutAll(_, _)
DictPutAll(values, articles) ==
    IF articles = <<>> THEN values
    ELSE DictPutAll(IF Head(articles).url # "" THEN DictPut(values, Head(articles))
                    ELSE values,
                    Tail(articles))

merge_news_articles_cached_wins(existing_articles, new_articles) ==
    SortByDateDesc(DictPutAll(DictPutAll(<<>>, new_articles), existing_articles))

merge_news_articles(existing_articles, new_articles) ==
    SortByDateDesc(DictPutAll(DictPutAll(<<>>, existing_articles), new_articles))

\* ------------------------------------------------------------------------
\* Configuration (load_config / get_config_value) and topics (news_sources)
\* ------------------------------------------------------------------------
\* news_sources in config order; max_pages = 0 stands for "no per-topic
\* override" (topic_config.get('max_pages') or <global> treats both alike)
news_sources ==
    << [topic |-> "deep-learning",    title_query |-> <<"deep", "learning">>,    max_pages |-> 0],
       [topic |-> "machine-learning", title_query |-> <<"machine", "learning">>, max_pages |-> 1] >>

topics_list == 1..Len(news_sources)

\* api.max_page_size
max_page_size == MaxLen

\* date_range.retention_days of a configuration that trims
RetentionDays == 1

\* api.early_stop_duplicate_threshold when the configuration names none
\* (DEFAULT_EARLY_STOP_DUPLICATE_THRESHOLD), in tenths
early_stop_duplicate_threshold == 7

Configs ==
    [ max_api_calls : 0..MaxApiCalls,
      max_pages : {MaxPages},
      free_tier_mode : BOOLEAN,
      retention_days : {0, RetentionDays},
      min_articles_per_topic : {MaxLen},
      early_stop_duplicate_threshold : {5, early_stop_duplicate_threshold},
      combine_topics : BOOLEAN,
      api_key : {TRUE} ]

\* ------------------------------------------------------------------------
\* Persisted storage: one file per topic
\* ------------------------------------------------------------------------
MissingFile == [kind |-> "missing", items |-> <<>>]
CorruptFile == [kind |-> "corrupt", items |-> <<>>]
FileOf(items) == [kind |-> "ok", items |-> items]

\* load_existing_news: [] when the file is missing or unreadable
load_existing_news(f) == IF f.kind = "ok" THEN f.items ELSE <<>>

RECURSIVE IsSortedDesc(_)
IsSortedDesc(items) ==
    \/ Len(items) <= 1
    \/ /\ DateKey(items[1]) >= DateKey(items[2])
       /\ IsSortedDesc(Tail(items))

DistinctUrls(items) ==
    \A i, j \in 1..Len(items) : items[i].url = items[j].url => i = j

\* ------------------------------------------------------------------------
\* Titles and phrase matching (article_matches_exact_phrase)
\* A title is the sequence of its words; re.IGNORECASE compares the words
\* without regard to case, \b and \s+ make the phrase a run of whole words.
\* ------------------------------------------------------------------------
Lower(w) ==
    CASE w = "Deep" -> "deep"
      [] w = "Learning" -> "learning"
      [] w = "Machine" -> "machine"
      [] w = "D" -> "d"
      [] w = "Too" -> "too"
      [] w = "Quota" -> "quota"
      [] w = "rateLimitExceeded" -> "ratelimitexceeded"
      [] w = "tooManyRequests" -> "toomanyrequests"
      [] w = "quotaExceeded" -> "quotaexceeded"
      [] w = "maximumResultsReached" -> "maximumresultsreached"
      [] w = "apiKeyInvalid" -> "apikeyinvalid"
      [] OTHER -> w

LowerAll(words) == [i \in 1..Len(words) |-> Lower(words[i])]

article_matches_exact_phrase(article, exact_phrase) ==
    /\ article.title # <<>>
    /\ \E i \in 1..Len(article.title) :
          /\ i + Len(exact_phrase) - 1 <= Len(article.title)
          /\ LowerAll(SubSeq(article.title, i, i + Len(exact_phrase) - 1))
                = LowerAll(exact_phrase)

\* ------------------------------------------------------------------------
\* Provider records.  publishedAt is <<date code, time of day>>, or <<>> when
\* the key is absent; process_article keeps the first ten characters, the
\* date, and takes the day of the run when the key is absent.
\* ------------------------------------------------------------------------
DateOnly(publishedAt) == IF publishedAt = <<>> THEN Today ELSE publishedAt[1]

RawArticles ==
    [ url : {"a"},
      title : {<<"Deep", "Learning">>, <<"machine", "learning">>},
      publishedAt : {<<>>} ]
    \cup [ url : {"b"},
           title : {<<"Deep", "Learning">>, <<"machine", "learning">>},
           publishedAt : {<<1, 0>>} ]
    \cup { [url |-> "",  title |-> <<"Deep", "Learning">>, publishedAt |-> <<MaxDay, 0>>],
           [url |-> "a", title |-> <<>>, publishedAt |-> <<MaxDay, 0>>] }

\* the records of RawArticles that no topic accepts
QuietArticles == { r \in RawArticles : r.url = "" \/ r.title = <<>> }

\* what the provider has to offer: "news" or nothing acceptable ("quiet")
Feed(kind) == IF kind = "news" THEN RawArticles ELSE QuietArticles

\* process_article with use_exact_phrase=True: the formatted record, or
\* Rejected (None)
Rejected == [title |-> <<>>, url |-> "", date |-> EmptyDate]

process_article_unvalidated(article, exact_phrase, seen_urls) ==
    IF ~ article_matches_exact_phrase(article, exact_phrase)
    THEN Rejected
    ELSE [title |-> article.title, url |-> article.url,
          date |-> DateOnly(article.publishedAt)]

process_article(article, exact_phrase, seen_urls) ==
    IF article.url = "" \/ article.title = <<>> \/ article.url \in seen_urls
    THEN Rejected
    ELSE IF ~ article_matches_exact_phrase(article, exact_phrase)
    THEN Rejected
    ELSE [title |-> article.title, url |-> article.url,
          date |-> DateOnly(article.publishedAt)]

\* the loop "for article in articles: processed = process_article(..)":
\* the accumulated news_items (seen_urls is the set of their urls)
UrlsOf(items) == {items[i].url : i \in 1..Len(items)}

RECURSIVE ProcessPage(_, _, _)
ProcessPage(news_items, articles, exact_phrase) ==
    IF articles = <<>> THEN news_items
    ELSE LET processed == process_article(Head(articles), exact_phrase, UrlsOf(news_items))
         IN  ProcessPage(IF processed # Rejected THEN Append(news_items, processed)
                         ELSE news_items,
                         Tail(articles), exact_phrase)

\* ------------------------------------------------------------------------
\* Outcomes of one provider call: what make_api_request returns, as
\* fetch_articles_page hands it on
\*    (response_data, success, is_rate_limited, is_result_limit_reached)
\* ------------------------------------------------------------------------
NoData == [present |-> FALSE, status |-> "", totalResults |-> 0, articles |-> <<>>]

Pages(kind) == UNION { [1..n -> Feed(kind)] : n \in 0..MaxLen }

\* a body the provider delivered without an HTTP error
Payloads(kind, totals) ==
    [ present : {TRUE}, status : {"ok"}, totalResults : totals, articles : Pages(kind) ]
    \cup { [present |-> TRUE, status |-> "error", totalResults |-> 0, articles |-> <<>>] }

\* _handle_result_limit_error with articles in the error body: the body is
\* marked "ok" and handed on as it is, with the totalResults it may carry
CarriedPayloads(kind, totals) ==
    [ present : {TRUE}, status : {"ok"}, totalResults : totals,
      articles : Pages(kind) \ {<<>>} ]

Outcomes(kind, totals) ==
    [ response_data : Payloads(kind, totals) \cup {NoData}, success : {TRUE},
      is_rate_limited : {FALSE}, is_result_limit_reached : {FALSE} ]
    \cup [ response_data : CarriedPayloads(kind, totals), success : {TRUE},
           is_rate_limited : {FALSE}, is_result_limit_reached : {TRUE} ]
    \cup [ response_data : {NoData}, success : {FALSE},
           is_rate_limited : BOOLEAN, is_result_limit_reached : {FALSE} ]
    \cup [ response_data : {NoData}, success : {FALSE},
           is_rate_limited : {FALSE}, is_result_limit_reached : {TRUE} ]

\* totalResults as the first page may report it: no page, one full page,
\* one record more than a page, more than MaxPages pages
TotalResultsChoices ==
    {0, max_page_size, max_page_size + 1, MaxPages * max_page_size + 1}

\* ------------------------------------------------------------------------
\* The request layer: make_api_request and the classification of error
\* responses.  A text (message, response.text, str(error_data)) is the
\* sequence of its words; "indicator in text" is a run of words of the text.
\* ------------------------------------------------------------------------
Contains(words, phrase) ==
    \E i \in 1..Len(words) :
        /\ i + Len(phrase) - 1 <= Len(words)
        /\ SubSeq(words, i, i + Len(phrase) - 1) = phrase

rate_limit_indicators ==
    { <<"rate", "limit">>, <<"rate_limit">>, <<"quota">>,
      <<"too", "many", "requests">>, <<"too", "many", "calls">>,
      <<"request", "limit">>, <<"api", "limit", "exceeded">>,
      <<"throttle">>, <<"throttled">> }

rate_limit_codes == {"rateLimitExceeded", "tooManyRequests", "quotaExceeded"}

_is_rate_limit_error_by_status(error_code, error_message, error_text, status_code) ==
    \/ status_code = 429
    \/ \E indicator \in rate_limit_indicators :
          \/ Contains(LowerAll(error_message), indicator)
          \/ Contains(LowerAll(error_text), indicator)
    \/ Lower(error_code) \in {Lower(code) : code \in rate_limit_codes}

\* status_code is a parameter the function never reads
_is_rate_limit_error(error_code, error_message, error_text, status_code) ==
    \/ \E indicator \in rate_limit_indicators :
          \/ Contains(LowerAll(error_message), indicator)
          \/ Contains(LowerAll(error_text), indicator)
    \/ Lower(error_code) \in {Lower(code) : code \in rate_limit_codes}

MSG_ERROR_CODE_MAX_RESULTS == "maximumResultsReached"

_is_result_limit_error(error_code, error_message, error_text) ==
    \/ error_code = MSG_ERROR_CODE_MAX_RESULTS
    \/ Contains(error_message, <<"100", "results">>)
    \/ Contains(error_message, <<"result", "limit">>)
    \/ Contains(error_message, <<"maximum", "results">>)
    \/ Contains(error_message, <<"max", "of", "100">>)
    \/ (Contains(error_message, <<"limited", "to">>) /\ Contains(error_text, <<"100">>))

\* the result-limit keywords looked for in the raw text when the body is
\* not JSON
TextHasResultLimit(error_text) ==
    \/ Contains(error_text, <<"100", "results">>)
    \/ Contains(error_text, <<"result", "limit">>)
    \/ Contains(error_text, <<"max", "of", "100">>)

\* article_processing.max_error_text_length, in words
MaxErrorTextLength == 4

\* What requests.get meets.  raises: the exception requests.get itself
\* raises ("none": a response arrived).  The body of a response is a JSON
\* object ("dict"), some other JSON value ("list") or no JSON at all
\* ("text"); nulls are the keys of the object whose value is null.
StatusCodes == {200, 400, 426, 429, 500}

ErrorStatusCodes == {status_code \in StatusCodes : status_code >= 400}

Messages ==
    { <<>>,
      <<"Too", "many", "requests">>,
      <<"monthly", "Quota", "used">>,
      <<"limited", "to", "a", "max", "of", "100", "results">>,
      <<"result", "limit">>,
      <<"quota", "result", "limit">>,
      <<"result", "limit", "reached", "for", "quota">>,
      <<"invalid", "key">> }

Codes == {"", "apiKeyInvalid", "tooManyRequests", MSG_ERROR_CODE_MAX_RESULTS}

CarriedArticle == [url |-> "b", title |-> <<"Deep", "Learning">>, publishedAt |-> <<1, 0>>]

Bodies ==
    [ format : {"dict"}, status : {"ok", "error"}, code : Codes, message : Messages,
      nulls : {{}, {"code"}, {"message"}}, articles : {<<>>, << CarriedArticle >>} ]
    \cup [ format : {"list", "text"}, status : {""}, code : {""}, message : Messages,
           nulls : {{}}, articles : {<<>>} ]

HttpExchanges ==
    [ raises : {"none"}, status_code : StatusCodes, body : Bodies ]
    \cup [ raises : {"Timeout", "ConnectionError"}, status_code : {200},
           body : { b \in Bodies : b.format = "text" /\ b.message = <<>> } ]

NoExchange ==
    [ raises |-> "none", status_code |-> 200,
      body |-> [ format |-> "text", status |-> "", code |-> "", message |-> <<>>,
                 nulls |-> {}, articles |-> <<>> ] ]

\* the five values make_api_request returns (response_time_ms left out),
\* the exception that leaves it instead ("none": it returned), and the
\* number of times it called requests.get
Returns(response_data, success, is_rate_limited, is_result_limit_reached) ==
    [ response_data |-> response_data, success |-> success,
      is_rate_limited |-> is_rate_limited,
      is_result_limit_reached |-> is_result_limit_reached,
      raised |-> "none", http_requests |-> 1 ]

Raises(exception) ==
    [ response_data |-> NoData, success |-> FALSE, is_rate_limited |-> FALSE,
      is_result_limit_reached |-> FALSE, raised |-> exception, http_requests |-> 1 ]

NoOutcome ==
    [ response_data |-> NoData, success |-> FALSE, is_rate_limited |-> FALSE,
      is_result_limit_reached |-> FALSE, raised |-> "none", http_requests |-> 0 ]

\* response.json() of a body that is JSON
DataOf(body, status) ==
    IF body.format = "dict"
    THEN [present |-> TRUE, status |-> status, totalResults |-> 0, articles |-> body.articles]
    ELSE [present |-> TRUE, status |-> "", totalResults |-> 0, articles |-> <<>>]

RECURSIVE TitleWords(_)
TitleWords(articles) ==
    IF articles = <<>> THEN <<>> ELSE Head(articles).title \o TitleWords(Tail(articles))

\* the words of str(error_data) and of response.text
WordsOf(body) ==
    (IF body.code = "" \/ "code" \in body.nulls THEN <<>> ELSE << body.code >>)
    \o (IF "message" \in body.nulls THEN <<>> ELSE body.message)
    \o TitleWords(body.articles)

\* response.text[:max_error_length]
ErrorText(body) ==
    IF Len(WordsOf(body)) <= MaxErrorTextLength THEN WordsOf(body)
    ELSE SubSeq(WordsOf(body), 1, MaxErrorTextLength)

_handle_rate_limit_error == Returns(NoData, FALSE, TRUE, FALSE)

_handle_other_http_error == Returns(NoData, FALSE, FALSE, FALSE)

_handle_result_limit_error(body) ==
    IF body.articles # <<>>
    THEN Returns(DataOf(body, "ok"), TRUE, FALSE, TRUE)
    ELSE Returns(NoData, FALSE, FALSE, TRUE)

\* the try block inside the HTTPError handler: error_data.get(..) on the
\* parsed body.  What it raises: ValueError when the body is not JSON,
\* AttributeError when the body is no object, when message is null
\* (.lower()) and when code is null and no indicator was found
\* (error_code.lower()); otherwise "none" and, in classified, the handler
\* it returns with ("other": it falls through).
ParsedErrorBody(body, status_code) ==
    LET error_message == LowerAll(body.message)
        error_text == LowerAll(WordsOf(body))
        error_code == IF "code" \in body.nulls THEN "" ELSE body.code
        indicated == \E indicator \in rate_limit_indicators :
                        \/ Contains(error_message, indicator)
                        \/ Contains(error_text, indicator)
    IN  IF body.format = "text" THEN [raised |-> "ValueError", classified |-> "other"]
        ELSE IF body.format = "list" \/ "message" \in body.nulls
        THEN [raised |-> "AttributeError", classified |-> "other"]
        ELSE IF "code" \in body.nulls /\ ~ indicated
        THEN [raised |-> "AttributeError", classified |-> "other"]
        ELSE IF _is_rate_limit_error(error_code, error_message, error_text, status_code)
        THEN [raised |-> "none", classified |-> "rate_limit"]
        ELSE IF _is_result_limit_error(error_code, error_message, error_text)
        THEN [raised |-> "none", classified |-> "result_limit"]
        ELSE [raised |-> "none", classified |-> "other"]

\* the except clause of that try block, with the raw text
UnparsedErrorBody(body, status_code) ==
    LET error_text == LowerAll(ErrorText(body))
    IN  IF error_text # <<>> /\ _is_rate_limit_error("", <<>>, error_text, status_code)
        THEN _handle_rate_limit_error
        ELSE IF error_text # <<>> /\ TextHasResultLimit(error_text)
        THEN Returns(NoData, FALSE, FALSE, TRUE)
        ELSE _handle_other_http_error

CaughtValueErrorOnly == {"ValueError"}

\* except (ValueError, AttributeError, TypeError)
CaughtInHandler == {"ValueError", "AttributeError", "TypeError"}

\* except requests.exceptions.HTTPError as http_err.  An exception that is
\* not caught inside this handler leaves make_api_request: the sibling
\* "except Exception" does not cover it.
HandleHTTPError(body, status_code) ==
    LET parsed == ParsedErrorBody(body, status_code)
    IN  IF parsed.raised = "none"
        THEN CASE parsed.classified = "rate_limit" -> _handle_rate_limit_error
               [] parsed.classified = "result_limit" -> _handle_result_limit_error(body)
               [] OTHER -> _handle_other_http_error
        ELSE IF parsed.raised \in CaughtInHandler
        THEN UnparsedErrorBody(body, status_code)
        ELSE Raises(parsed.raised)

\* a request layer that classifies the content of every body, delivered
\* with an HTTP error or without
make_api_request_classifying_all(http) ==
    IF http.raises # "none" THEN Returns(NoData, FALSE, FALSE, FALSE)
    ELSE IF http.status_code >= 400 \/ http.body.status # "ok"
    THEN HandleHTTPError(http.body, http.status_code)
    ELSE IF http.body.format = "text" THEN Returns(NoData, FALSE, FALSE, FALSE)
    ELSE Returns(DataOf(http.body, http.body.status), TRUE, FALSE, FALSE)

\* make_api_request: requests.get, raise_for_status, response.json()
make_api_request(http) ==
    IF http.raises # "none" THEN Returns(NoData, FALSE, FALSE, FALSE)
    ELSE IF http.status_code >= 400 THEN HandleHTTPError(http.body, http.status_code)
    ELSE IF http.body.format = "text" THEN Returns(NoData, FALSE, FALSE, FALSE)
    ELSE Returns(DataOf(http.body, http.body.status), TRUE, FALSE, FALSE)

\* ------------------------------------------------------------------------
\* State
\* ------------------------------------------------------------------------
VARIABLES
    config,              \* the configuration of the run (load_config)
    feed,                \* what the provider has to offer: "news" | "quiet"
    file,                \* topic -> the persisted file
    runs_left,           \* runs of main() still to come
    pc,                  \* position of the run
    idx,                 \* main's loop index over topics_list
    api_call_count,      \* api_call_count['total']
    rate_limited_flag,   \* rate_limited_flag['value']
    error_count,         \* main's error_count
    existing_articles,   \* topic -> the loaded cache
    new_articles,        \* topic -> the fetched articles
    is_rate_limited,     \* what the fetch of the current topic returned
    fetch,               \* locals of fetch_from_newsapi
    phase,               \* topic -> "idle" | "loaded" | "done" in this run
    calls,               \* topic -> provider calls issued for it in this run
                         \* (0: the combined request)
    rate_limited_at,     \* loop index at which RateLimited was returned, or 0
    saved,               \* the collection last handed to update_news_file
    last,                \* the merge_filter_and_save_articles call last completed:
                         \* its topic, the size of its cache, whether it had new
                         \* articles, whether update_news_file was invoked and
                         \* whether the write succeeded
    stable,              \* topic -> its last processing brought nothing new
                         \*          and its write, if any, succeeded
    http_requests,       \* calls of requests.get in this run
    result_limit,        \* the last provider call of the run: whether its
                         \* outcome was a Failure, whether it was a body with
                         \* a status other than "ok", and when it was
                         \* is_result_limit_reached: the page requested,
                         \* whether its error body carried articles, and the
                         \* accumulation with those articles processed into it
    u_existing, u_new, u_retention_days, u_op, u_result,  \* the function under test
    u_http,              \* what requests.get meets in make_api_request
    u_outcome,           \* what make_api_request does with it
    u_title, u_phrase,   \* a title and a phrase, as texts
    u_match              \* what article_matches_exact_phrase says of them

vars == << config, feed, file, runs_left, pc, idx, api_call_count, rate_limited_flag,
           error_count, existing_articles, new_articles, is_rate_limited,
           fetch, phase, calls, rate_limited_at, saved, last, stable, result_limit,
           http_requests,
           u_existing, u_new, u_retention_days, u_op, u_result, u_http, u_outcome,
           u_title, u_phrase, u_match >>

unit_vars == << u_existing, u_new, u_retention_days, u_op, u_result, u_http, u_outcome,
                u_title, u_phrase, u_match >>

TextIdle ==
    /\ u_title = <<>>
    /\ u_phrase = <<>>
    /\ u_match = FALSE

NoFetch == [ news_items |-> <<>>, seen_urls |-> {}, articles |-> <<>>,
             max_pages |-> 0, total_results |-> 0, total_pages |-> 0, page |-> 0,
             issued |-> 0, configured_pages |-> 0, remaining_calls |-> 0 ]

NoCall == [ topic |-> 0, cached |-> 0, had_new |-> FALSE, was_stable |-> FALSE,
            invoked |-> FALSE, ok |-> TRUE ]

NoArticles == [t \in topics_list |-> <<>>]

NoResultLimit == [reached |-> FALSE, page |-> 0, carried |-> FALSE, processed |-> <<>>,
                  failure |-> FALSE, error_status |-> FALSE]

\* what a provider call with outcome o for page leaves in result_limit;
\* processed is the accumulation with the articles of o processed into it;
\* failure: the outcome was a Failure (no success, no signal);
\* error_status: a body arrived without an HTTP error, its status not "ok"
ResultLimitOf(o, page, processed) ==
    IF o.is_result_limit_reached
    THEN [reached |-> TRUE, page |-> page,
          carried |-> o.response_data.articles # <<>>, processed |-> processed,
          failure |-> FALSE, error_status |-> FALSE]
    ELSE [NoResultLimit EXCEPT
            !.failure = ~ o.success /\ ~ o.is_rate_limited,
            !.error_status = /\ o.success
                             /\ o.response_data.present
                             /\ o.response_data.status # "ok"]

\* the records a file written on an earlier day may hold for a topic
CachedArticle(t, url, date) ==
    [title |-> news_sources[t].title_query, url |-> url, date |-> date]

\* files as earlier runs left them: sorted newest first, one record per url
InitialFile(t, shape) ==
    CASE shape = "missing" -> MissingFile
      [] shape = "recent" -> FileOf(<< CachedArticle(t, "a", MaxDay) >>)
      [] shape = "old" -> FileOf(<< CachedArticle(t, "b", 1) >>)
      [] shape = "mixed" ->
            FileOf(<< CachedArticle(t, "a", MaxDay), CachedArticle(t, "b", 1) >>)
      [] shape = "same_day" ->
            FileOf(<< CachedArticle(t, "b", MaxDay), CachedArticle(t, "a", MaxDay) >>)

CacheShapes == {"missing", "recent", "old", "mixed", "same_day"}

UnitIdle ==
    /\ u_existing = <<>>
    /\ u_new = <<>>
    /\ u_retention_days = 0
    /\ u_op = "none"
    /\ u_result = <<>>
    /\ u_http = NoExchange
    /\ u_outcome = NoOutcome
    /\ TextIdle

\* the state of the program before a run, whatever its configuration
BeforeRun ==
    /\ \E shape \in CacheShapes : file = [t \in topics_list |-> InitialFile(t, shape)]
    /\ pc = "idle"
    /\ idx = 0
    /\ api_call_count = 0
    /\ rate_limited_flag = FALSE
    /\ error_count = 0
    /\ existing_articles = NoArticles
    /\ new_articles = NoArticles
    /\ is_rate_limited = FALSE
    /\ fetch = NoFetch
    /\ phase = [t \in topics_list |-> "idle"]
    /\ calls = [t \in {0} \cup topics_list |-> 0]
    /\ rate_limited_at = 0
    /\ saved = <<>>
    /\ last = NoCall
    /\ stable = [t \in topics_list |-> FALSE]
    /\ result_limit = NoResultLimit
    /\ http_requests = 0

InitRun ==
    /\ config \in Configs
    /\ BeforeRun

\* one run of main() against a provider that has news
Init ==
    /\ InitRun
    /\ UnitIdle
    /\ feed = "news"
    /\ runs_left = 1

\* ------------------------------------------------------------------------
\* merge_filter_and_save_articles and update_news_file
\* ------------------------------------------------------------------------
MergedArticlesDropsCache(existing, new) ==
    IF existing # <<>> /\ new # <<>> THEN merge_news_articles(existing, new)
    ELSE new

\* the if / elif chain that chooses merged_articles
MergedArticles(existing, new) ==
    IF existing # <<>> /\ new # <<>> THEN merge_news_articles(existing, new)
    ELSE IF existing # <<>> THEN existing
    ELSE IF new # <<>> THEN new
    ELSE <<>>

FilteredArticles(existing, new, retention_days) ==
    LET merged_articles == MergedArticles(existing, new)
    IN  IF merged_articles # <<>>
        THEN filter_articles_by_retention(merged_articles, retention_days)
        ELSE <<>>

SaveInvokedAlways(existing, filtered_articles) == TRUE

\* "if filtered_articles or not existing_articles"
SaveInvoked(existing, filtered_articles) ==
    filtered_articles # <<>> \/ existing = <<>>

\* What open(file_path, 'w') + yaml.dump leave behind: the whole collection;
\* nothing touched (makedirs or open failed); or, when the write fails after
\* open truncated the file, a text that is no longer the collection.
WriteOutcomes(news_items) ==
    { [ok |-> TRUE, touched |-> TRUE, left |-> FileOf(news_items)],
      [ok |-> FALSE, touched |-> FALSE, left |-> MissingFile],
      [ok |-> FALSE, touched |-> TRUE, left |-> CorruptFile] }

\* update_news_file(topic, news_items) with the outcome w of the write
update_news_file(t, news_items, w) ==
    /\ w \in WriteOutcomes(SortByDateDesc(news_items))
    /\ saved' = news_items
    /\ file' = IF w.touched THEN [file EXCEPT ![t] = w.left] ELSE file

\* merge_filter_and_save_articles for topic t; success is its first result
merge_filter_and_save_articles(t, success) ==
    LET existing == existing_articles[t]
        filtered_articles ==
            FilteredArticles(existing, new_articles[t], config.retention_days)
        call == [ topic |-> t, cached |-> Len(existing),
                  had_new |-> new_articles[t] # <<>>,
                  was_stable |-> stable[t],
                  invoked |-> FALSE, ok |-> TRUE ]
    IN  IF SaveInvoked(existing, filtered_articles)
        THEN \E w \in WriteOutcomes(SortByDateDesc(filtered_articles)) :
                /\ update_news_file(t, filtered_articles, w)
                /\ success = w.ok
                /\ last' = [call EXCEPT !.invoked = TRUE, !.ok = w.ok]
                /\ stable' = [stable EXCEPT ![t] = new_articles[t] = <<>> /\ w.ok]
        ELSE /\ success = TRUE
             /\ last' = call
             /\ stable' = [stable EXCEPT ![t] = new_articles[t] = <<>>]
             /\ UNCHANGED << file, saved >>

\* ------------------------------------------------------------------------
\* fetch_from_newsapi
\* ------------------------------------------------------------------------
Min(a, b) == IF a <= b THEN a ELSE b

LimitReachedOffByOne(count) == count > config.max_api_calls

\* api_call_count['total'] >= max_api_calls, the comparison of every limit check
LimitReached(count) == count >= config.max_api_calls

\* _validate_api_request
_validate_api_request(count) ==
    config.api_key /\ ~ LimitReached(count)

\* "Check if we can make the request", inside the try of both fetch functions
CanMakeRequest(count) == ~ LimitReached(count)

ShouldFetchIgnoringFlag(api_key, rate_limited) == api_key

\* process_topic / main: "if api_key and not rate_limited"
ShouldFetch(api_key, rate_limited) == api_key /\ ~ rate_limited

\* topic_config.get('max_pages') or get_config_value(config, 'api.max_pages')
ConfiguredMaxPages(t) ==
    IF news_sources[t].max_pages # 0 THEN news_sources[t].max_pages
    ELSE config.max_pages

FetchMaxPagesIgnoringBudget(t, count) ==
    IF config.free_tier_mode THEN 1 ELSE ConfiguredMaxPages(t)

\* max_pages as computed before the first request
FetchMaxPages(t, count) ==
    IF config.free_tier_mode THEN 1
    ELSE Min(ConfiguredMaxPages(t), config.max_api_calls - count)

TotalPagesUncapped(total_results, max_pages) ==
    (total_results + max_page_size - 1) \div max_page_size

\* (total_results + max_page_size - 1) // max_page_size, capped by max_pages
TotalPages(total_results, max_pages) ==
    Min((total_results + max_page_size - 1) \div max_page_size, max_pages)

\* duplicate_ratio = 1.0 - new_articles_this_page / len(articles), against
\* api.early_stop_duplicate_threshold (tenths; 5 is one half)
TooManyDuplicates(page_len, new_articles_this_page) ==
    /\ page_len > 0
    /\ 10 * (page_len - new_articles_this_page)
           >= config.early_stop_duplicate_threshold * page_len

\* a loop "while True" that asks for the next page whatever was reported
LoopRequestsForever(page_num, total_pages, count) == TRUE

\* "for page_num in range(2, total_pages + 1)" reaches the request of
\* page_num: the page exists and the call limit check does not break
LoopRequests(page_num, total_pages, count) ==
    page_num <= total_pages /\ ~ LimitReached(count)

\* _process_api_response lets the body through
Processable(o) ==
    /\ o.success
    /\ o.response_data.present
    /\ (o.response_data.status = "ok" \/ o.is_result_limit_reached)

FetchReturnsNothing(t, items, rate_limited) ==
    /\ new_articles' = [new_articles EXCEPT ![t] = <<>>]
    /\ is_rate_limited' = rate_limited
    /\ rate_limited_flag' = (rate_limited_flag \/ rate_limited)
    /\ rate_limited_at' = IF rate_limited /\ rate_limited_at = 0 THEN idx ELSE rate_limited_at
    /\ pc' = "merge"

FetchReturnsUnsignalled(t, items, rate_limited) ==
    /\ new_articles' = [new_articles EXCEPT ![t] = items]
    /\ is_rate_limited' = FALSE
    /\ rate_limited_flag' = rate_limited_flag
    /\ rate_limited_at' = IF rate_limited /\ rate_limited_at = 0 THEN idx ELSE rate_limited_at
    /\ pc' = "merge"

\* the shared flag raised whatever fetch_from_newsapi returned
FetchReturnsRaisingFlag(t, items, rate_limited) ==
    /\ new_articles' = [new_articles EXCEPT ![t] = items]
    /\ is_rate_limited' = rate_limited
    /\ rate_limited_flag' = TRUE
    /\ rate_limited_at' = IF rate_limited /\ rate_limited_at = 0 THEN idx ELSE rate_limited_at
    /\ pc' = "merge"

\* fetch_from_newsapi returns (items, rate_limited) to process_topic, which
\* raises the shared flag when rate_limited
FetchReturns(t, items, rate_limited) ==
    /\ new_articles' = [new_articles EXCEPT ![t] = items]
    /\ is_rate_limited' = rate_limited
    /\ rate_limited_flag' = (rate_limited_flag \/ rate_limited)
    /\ rate_limited_at' = IF rate_limited /\ rate_limited_at = 0 THEN idx ELSE rate_limited_at
    /\ pc' = "merge"

HttpRequestsRetryingRateLimit(o) == IF o.is_rate_limited THEN 2 ELSE 1

\* the calls of requests.get in one make_api_request: the one at its head,
\* whatever the outcome; retry_count is never read and nothing calls it again
HttpRequestsOf(o) == 1

CountCall(t) ==
    /\ api_call_count' = api_call_count + 1
    /\ calls' = [calls EXCEPT ![t] = @ + 1]

\* ------------------------------------------------------------------------
\* main(): start of a run
\* ------------------------------------------------------------------------
CombinedMode == config.combine_topics /\ Len(news_sources) > 1

\* main() up to the first provider call or the first topic.  In combined
\* mode the caches of all topics are loaded first and
\* fetch_combined_from_newsapi validates the request.
StartRun ==
    /\ pc = "idle"
    /\ runs_left > 0
    /\ runs_left' = runs_left - 1
    /\ api_call_count' = 0
    /\ rate_limited_flag' = FALSE
    /\ error_count' = 0
    /\ is_rate_limited' = FALSE
    /\ fetch' = NoFetch
    /\ calls' = [t \in {0} \cup topics_list |-> 0]
    /\ rate_limited_at' = 0
    /\ result_limit' = NoResultLimit
    /\ http_requests' = 0
    /\ new_articles' = NoArticles
    /\ idx' = 1
    /\ IF CombinedMode
       THEN /\ existing_articles' = [t \in topics_list |-> load_existing_news(file[t])]
            /\ phase' = [t \in topics_list |-> "loaded"]
            /\ pc' = IF /\ ShouldFetch(config.api_key, FALSE)
                        /\ _validate_api_request(0)
                        /\ CanMakeRequest(0)
                     THEN "combined_fetch" ELSE "combined_save"
       ELSE /\ existing_articles' = NoArticles
            /\ phase' = [t \in topics_list |-> "idle"]
            /\ pc' = "topic"
    /\ UNCHANGED << config, feed, file, saved, last, stable >>
    /\ UNCHANGED unit_vars

\* ------------------------------------------------------------------------
\* process_topic: load the cache and enter fetch_from_newsapi up to its first
\* request
\* ------------------------------------------------------------------------
ProcessTopicBegin ==
    /\ pc = "topic"
    /\ LET t == idx
           max_pages == FetchMaxPages(t, api_call_count)
       IN  /\ existing_articles' = [existing_articles EXCEPT ![t] = load_existing_news(file[t])]
           /\ phase' = [phase EXCEPT ![t] = "loaded"]
           /\ IF /\ ShouldFetch(config.api_key, rate_limited_flag)
                 /\ _validate_api_request(api_call_count)
                 /\ ~ (max_pages <= 0)
                 /\ CanMakeRequest(api_call_count)
              THEN /\ fetch' = [NoFetch EXCEPT
                                  !.max_pages = max_pages,
                                  !.page = 1,
                                  !.configured_pages = ConfiguredMaxPages(t),
                                  !.remaining_calls = config.max_api_calls - api_call_count]
                   /\ pc' = "first_page"
              ELSE /\ fetch' = NoFetch
                   /\ pc' = "merge"
    /\ UNCHANGED << config, feed, file, runs_left, idx, api_call_count,
                    rate_limited_flag, error_count, new_articles, is_rate_limited,
                    calls, rate_limited_at, saved, last, stable, result_limit,
                    http_requests >>
    /\ UNCHANGED unit_vars

\* what fetch_from_newsapi leaves when it returns: its locals are gone, the
\* count of its requests and the limits it computed stay for inspection
Returned(f) == [NoFetch EXCEPT !.issued = f.issued,
                               !.max_pages = f.max_pages,
                               !.total_pages = f.total_pages,
                               !.configured_pages = f.configured_pages,
                               !.remaining_calls = f.remaining_calls]

\* the first request of fetch_from_newsapi and what follows it up to the next
\* request or the return
FetchFirstPage ==
    /\ pc = "first_page"
    /\ \E o \in Outcomes(feed, TotalResultsChoices) :
        LET t == idx
            data == o.response_data
            news_items == ProcessPage(<<>>, data.articles, news_sources[t].title_query)
            total_pages == TotalPages(data.totalResults, fetch.max_pages)
            issued == [fetch EXCEPT !.issued = @ + 1]
            counted == [issued EXCEPT !.total_results = data.totalResults,
                                      !.total_pages = total_pages]
        IN  /\ CountCall(t)
            /\ result_limit' = ResultLimitOf(o, fetch.page, news_items)
            /\ http_requests' = http_requests + HttpRequestsOf(o)
            /\ IF o.is_rate_limited
               THEN /\ FetchReturns(t, <<>>, TRUE)
                    /\ fetch' = Returned(issued)
               ELSE IF ~ Processable(o) \/ Len(data.articles) = 0
               THEN /\ FetchReturns(t, <<>>, FALSE)
                    /\ fetch' = Returned(issued)
               ELSE IF total_pages > 1 /\ LoopRequests(2, total_pages, api_call_count + 1)
               THEN /\ fetch' = [counted EXCEPT !.news_items = news_items,
                                                !.seen_urls = UrlsOf(news_items),
                                                !.articles = data.articles,
                                                !.page = 2]
                    /\ pc' = "next_page"
                    /\ UNCHANGED << new_articles, is_rate_limited, rate_limited_flag,
                                    rate_limited_at >>
               ELSE /\ FetchReturns(t, SortByDateDesc(news_items), FALSE)
                    /\ fetch' = Returned(counted)
    /\ UNCHANGED << config, feed, file, runs_left, idx, error_count,
                    existing_articles, phase, saved, last, stable >>
    /\ UNCHANGED unit_vars

\* one iteration of the pagination loop: the request of page fetch.page and
\* what follows it up to the next request or the return
FetchNextPage ==
    /\ pc = "next_page"
    /\ \E o \in Outcomes(feed, {0}) :
        LET t == idx
            data == o.response_data
            news_items == ProcessPage(fetch.news_items, data.articles,
                                      news_sources[t].title_query)
            new_articles_this_page == Len(news_items) - Len(fetch.news_items)
            issued == [fetch EXCEPT !.issued = @ + 1]
        IN  /\ CountCall(t)
            /\ result_limit' = ResultLimitOf(o, fetch.page, news_items)
            /\ http_requests' = http_requests + HttpRequestsOf(o)
            /\ IF o.is_rate_limited
               THEN /\ FetchReturns(t, fetch.news_items, TRUE)
                    /\ fetch' = Returned(issued)
               ELSE IF \/ o.is_result_limit_reached
                       \/ ~ o.success \/ ~ data.present
                       \/ data.status # "ok"
               THEN /\ FetchReturns(t, SortByDateDesc(fetch.news_items), FALSE)
                    /\ fetch' = Returned(issued)
               ELSE IF \/ Len(news_items) >= config.min_articles_per_topic
                       \/ TooManyDuplicates(Len(data.articles), new_articles_this_page)
                       \/ ~ LoopRequests(fetch.page + 1, fetch.total_pages, api_call_count + 1)
               THEN /\ FetchReturns(t, SortByDateDesc(news_items), FALSE)
                    /\ fetch' = Returned(issued)
               ELSE /\ fetch' = [issued EXCEPT !.news_items = news_items,
                                               !.seen_urls = UrlsOf(news_items),
                                               !.articles = data.articles,
                                               !.page = @ + 1]
                    /\ pc' = "next_page"
                    /\ UNCHANGED << new_articles, is_rate_limited, rate_limited_flag,
                                    rate_limited_at >>
    /\ UNCHANGED << config, feed, file, runs_left, idx, error_count,
                    existing_articles, phase, saved, last, stable >>
    /\ UNCHANGED unit_vars

\* a main that copies the last fetch's signal into the shared flag
MergeFilterSaveCopyingSignal ==
    /\ pc = "merge"
    /\ \E success \in BOOLEAN :
        /\ merge_filter_and_save_articles(idx, success)
        /\ error_count' = IF success THEN error_count ELSE error_count + 1
    /\ phase' = [phase EXCEPT ![idx] = "done"]
    /\ rate_limited_flag' = is_rate_limited
    /\ existing_articles' = NoArticles
    /\ new_articles' = NoArticles
    /\ is_rate_limited' = FALSE
    /\ result_limit' = [result_limit EXCEPT !.processed = <<>>]
    /\ IF LimitReached(api_call_count) \/ idx = Len(news_sources)
       THEN pc' = "idle" /\ idx' = idx
       ELSE pc' = "topic" /\ idx' = idx + 1
    /\ UNCHANGED << config, feed, runs_left, api_call_count, fetch, calls,
                    rate_limited_at, http_requests >>
    /\ UNCHANGED unit_vars

\* a loop over the topics that does not advance while calls are left
MergeFilterSaveAgain ==
    /\ pc = "merge"
    /\ \E success \in BOOLEAN :
        /\ merge_filter_and_save_articles(idx, success)
        /\ error_count' = IF success THEN error_count ELSE error_count + 1
    /\ phase' = [phase EXCEPT ![idx] = "done"]
    /\ rate_limited_flag' = (rate_limited_flag \/ is_rate_limited)
    /\ existing_articles' = NoArticles
    /\ new_articles' = NoArticles
    /\ is_rate_limited' = FALSE
    /\ result_limit' = [result_limit EXCEPT !.processed = <<>>]
    /\ IF LimitReached(api_call_count)
       THEN pc' = "idle" /\ idx' = idx
       ELSE pc' = "topic" /\ idx' = idx
    /\ UNCHANGED << config, feed, runs_left, api_call_count, fetch, calls,
                    rate_limited_at, http_requests >>
    /\ UNCHANGED unit_vars

\* the rest of process_topic (merge, retention, save) and the tail of main's
\* loop body: count the error, raise the flag, stop at the call limit.
\* process_topic's locals end with it.
MergeFilterSave ==
    /\ pc = "merge"
    /\ \E success \in BOOLEAN :
        /\ merge_filter_and_save_articles(idx, success)
        /\ error_count' = IF success THEN error_count ELSE error_count + 1
    /\ phase' = [phase EXCEPT ![idx] = "done"]
    /\ rate_limited_flag' = (rate_limited_flag \/ is_rate_limited)
    /\ existing_articles' = NoArticles
    /\ new_articles' = NoArticles
    /\ is_rate_limited' = FALSE
    /\ result_limit' = [result_limit EXCEPT !.processed = <<>>]
    /\ IF LimitReached(api_call_count) \/ idx = Len(news_sources)
       THEN pc' = "idle" /\ idx' = idx
       ELSE pc' = "topic" /\ idx' = idx + 1
    /\ UNCHANGED << config, feed, runs_left, api_call_count, fetch, calls,
                    rate_limited_at, http_requests >>
    /\ UNCHANGED unit_vars

\* ------------------------------------------------------------------------
\* Combined mode: fetch_combined_from_newsapi and main's save loop
\* ------------------------------------------------------------------------
route_article_to_last_topic(article) ==
    LET matching == { t \in topics_list :
                        /\ news_sources[t].title_query # <<>>
                        /\ article_matches_exact_phrase(article, news_sources[t].title_query) }
    IN  IF matching = {} THEN 0
        ELSE CHOOSE t \in matching : \A other \in matching : t >= other

\* route_article_to_topic: the first topic whose phrase the title satisfies,
\* 0 (None) when there is none
route_article_to_topic(article) ==
    LET matching == { t \in topics_list :
                        /\ news_sources[t].title_query # <<>>
                        /\ article_matches_exact_phrase(article, news_sources[t].title_query) }
    IN  IF matching = {} THEN 0
        ELSE CHOOSE t \in matching : \A other \in matching : t <= other

\* "for article in articles: topic = route_article_to_topic(..) ..."
RECURSIVE RoutePage(_, _)
RoutePage(topic_articles, articles) ==
    IF articles = <<>> THEN topic_articles
    ELSE LET article == Head(articles)
             t == route_article_to_topic(article)
             processed == process_article(article, news_sources[t].title_query,
                                          UrlsOf(topic_articles[t]))
         IN  RoutePage(IF t # 0 /\ processed # Rejected
                       THEN [topic_articles EXCEPT ![t] = Append(@, processed)]
                       ELSE topic_articles,
                       Tail(articles))

\* a combined request that goes on to further pages while the provider
\* reports more results than a page holds
FetchCombinedPaginating ==
    /\ pc = "combined_fetch"
    /\ \E o \in Outcomes(feed, TotalResultsChoices) :
        LET data == o.response_data
            routed == RoutePage(NoArticles, data.articles)
            stops == o.is_rate_limited \/ ~ Processable(o) \/ Len(data.articles) = 0
        IN  /\ CountCall(0)
            /\ result_limit' = ResultLimitOf(o, 1, <<>>)
            /\ http_requests' = http_requests + HttpRequestsOf(o)
            /\ is_rate_limited' = o.is_rate_limited
            /\ rate_limited_flag' = (rate_limited_flag \/ o.is_rate_limited)
            /\ rate_limited_at' = IF o.is_rate_limited THEN 1 ELSE 0
            /\ new_articles' =
                 IF stops THEN NoArticles
                 ELSE [t \in topics_list |-> SortByDateDesc(routed[t])]
            /\ pc' = IF /\ ~ stops
                        /\ data.totalResults > max_page_size
                        /\ ~ LimitReached(api_call_count + 1)
                     THEN "combined_fetch" ELSE "combined_save"
    /\ UNCHANGED << config, feed, file, runs_left, idx, error_count,
                    existing_articles, fetch, phase, saved, last, stable >>
    /\ UNCHANGED unit_vars

\* the single request of the combined mode, the routing of its articles and
\* main's reaction to the rate-limited signal
FetchCombined ==
    /\ pc = "combined_fetch"
    /\ \E o \in Outcomes(feed, TotalResultsChoices) :
        LET data == o.response_data
            routed == RoutePage(NoArticles, data.articles)
        IN  /\ CountCall(0)
            /\ result_limit' = ResultLimitOf(o, 1, <<>>)
            /\ http_requests' = http_requests + HttpRequestsOf(o)
            /\ is_rate_limited' = o.is_rate_limited
            /\ rate_limited_flag' = (rate_limited_flag \/ o.is_rate_limited)
            /\ rate_limited_at' = IF o.is_rate_limited THEN 1 ELSE 0
            /\ new_articles' =
                 IF o.is_rate_limited \/ ~ Processable(o) \/ Len(data.articles) = 0
                 THEN NoArticles
                 ELSE [t \in topics_list |-> SortByDateDesc(routed[t])]
    /\ pc' = "combined_save"
    /\ UNCHANGED << config, feed, file, runs_left, idx, error_count,
                    existing_articles, fetch, phase, saved, last, stable >>
    /\ UNCHANGED unit_vars

\* one iteration of "for topic, topic_config in topics_list: merge, filter,
\* save"; main's locals end after the last one
SaveCombined ==
    /\ pc = "combined_save"
    /\ \E success \in BOOLEAN :
        /\ merge_filter_and_save_articles(idx, success)
        /\ error_count' = IF success THEN error_count ELSE error_count + 1
    /\ phase' = [phase EXCEPT ![idx] = "done"]
    /\ IF idx = Len(news_sources)
       THEN /\ pc' = "idle" /\ idx' = idx
            /\ existing_articles' = NoArticles
            /\ new_articles' = NoArticles
            /\ is_rate_limited' = FALSE
       ELSE /\ pc' = "combined_save" /\ idx' = idx + 1
            /\ UNCHANGED << existing_articles, new_articles, is_rate_limited >>
    /\ result_limit' = [result_limit EXCEPT !.processed = <<>>]
    /\ UNCHANGED << config, feed, runs_left, api_call_count, rate_limited_flag,
                    fetch, calls, rate_limited_at, http_requests >>
    /\ UNCHANGED unit_vars

Next ==
    \/ StartRun
    \/ ProcessTopicBegin
    \/ FetchFirstPage
    \/ FetchNextPage
    \/ MergeFilterSave
    \/ FetchCombined
    \/ SaveCombined

Spec == Init /\ [][Next]_vars

\* runs of main() one after the other, same configuration and same day,
\* against a provider that has nothing acceptable to offer
InitQuietRuns ==
    /\ InitRun
    /\ UnitIdle
    /\ feed = "quiet"
    /\ runs_left = MaxRuns

SpecQuietRuns == InitQuietRuns /\ [][Next]_vars

\* ------------------------------------------------------------------------
\* The functions on their own: inputs of up to MaxLen records
\* ------------------------------------------------------------------------
SeqsUpTo(S) == UNION { [1..n -> S] : n \in 0..MaxLen }

run_vars == << config, feed, file, runs_left, pc, idx, api_call_count,
               rate_limited_flag, error_count, existing_articles, new_articles,
               is_rate_limited, fetch, phase, calls, rate_limited_at, saved,
               last, stable, result_limit, http_requests >>

RunIdle ==
    /\ InitRun
    /\ config = [ max_api_calls |-> 0, max_pages |-> MaxPages,
                  free_tier_mode |-> FALSE, retention_days |-> 0,
                  min_articles_per_topic |-> MaxLen,
                  early_stop_duplicate_threshold |-> early_stop_duplicate_threshold,
                  combine_topics |-> FALSE,
                  api_key |-> TRUE ]
    /\ file = [t \in topics_list |-> MissingFile]
    /\ feed = "quiet"
    /\ runs_left = 0

\* records as merge_news_articles may receive them: with or without url, the
\* cached and the fresh version of a url told apart by their titles
VersionsOf(word) == [ title : {<<word>>}, url : {"", "a", "b"}, date : {1, 2} ]

InitMerge ==
    /\ RunIdle
    /\ u_existing \in SeqsUpTo(VersionsOf("cached"))
    /\ u_new \in SeqsUpTo(VersionsOf("fresh"))
    /\ u_retention_days = 0
    /\ u_op = "none"
    /\ u_result = <<>>
    /\ u_http = NoExchange
    /\ u_outcome = NoOutcome
    /\ TextIdle

ApplyMerge ==
    /\ u_op = "none"
    /\ u_result' = merge_news_articles(u_existing, u_new)
    /\ u_op' = "merge"
    /\ UNCHANGED << u_existing, u_new, u_retention_days, u_http, u_outcome >>
    /\ UNCHANGED << u_title, u_phrase, u_match >>
    /\ UNCHANGED run_vars

NextMerge == ApplyMerge

SpecMerge == InitMerge /\ [][NextMerge]_vars

\* records of every kind of date, retention windows around zero
DatedArticles == [ title : {<<"dated">>}, url : {"a", "b"}, date : DateCodes ]

RetentionChoices == (0 - 1)..(RetentionDays + 1)

InitRetention ==
    /\ RunIdle
    /\ u_existing \in SeqsUpTo(DatedArticles)
    /\ u_new = <<>>
    /\ u_retention_days \in RetentionChoices
    /\ u_op = "none"
    /\ u_result = <<>>
    /\ u_http = NoExchange
    /\ u_outcome = NoOutcome
    /\ TextIdle

ApplyRetention ==
    /\ u_op = "none"
    /\ u_result' = filter_articles_by_retention(u_existing, u_retention_days)
    /\ u_op' = "retention"
    /\ UNCHANGED << u_existing, u_new, u_retention_days, u_http, u_outcome >>
    /\ UNCHANGED << u_title, u_phrase, u_match >>
    /\ UNCHANGED run_vars

NextRetention == ApplyRetention

SpecRetention == InitRetention /\ [][NextRetention]_vars

\* make_api_request on its own, over every exchange of HttpExchanges
InitRequest ==
    /\ RunIdle
    /\ u_existing = <<>>
    /\ u_new = <<>>
    /\ u_retention_days = 0
    /\ u_op = "none"
    /\ u_result = <<>>
    /\ u_http \in HttpExchanges
    /\ u_outcome = NoOutcome
    /\ TextIdle

ApplyRequest ==
    /\ u_op = "none"
    /\ u_outcome' = make_api_request(u_http)
    /\ u_op' = "request"
    /\ UNCHANGED << u_existing, u_new, u_retention_days, u_result, u_http >>
    /\ UNCHANGED << u_title, u_phrase, u_match >>
    /\ UNCHANGED run_vars

NextRequest == ApplyRequest

SpecRequest == InitRequest /\ [][NextRequest]_vars

\* ------------------------------------------------------------------------
\* Properties
\* ------------------------------------------------------------------------

\* C1: one invocation of fetch_from_newsapi issues at most
\* min(max pages configured for the topic, max_api_calls minus the calls
\* used before it) provider calls, whatever totalResults and whatever page
\* outcomes the provider reports.
C1_CallsWithinPagesAndBudget ==
    fetch.issued <= Min(fetch.configured_pages, fetch.remaining_calls)

\* a fetch that reached the cap: two pages were requested and the provider
\* had reported more pages than that; and the budget can be the smaller cap
C1_Witness ==
    /\ pc = "merge"
    /\ fetch.issued = 2
    /\ fetch.issued = fetch.remaining_calls
    /\ fetch.remaining_calls <= fetch.configured_pages
    /\ api_call_count = config.max_api_calls

\* C2: at every point of a run, per-topic or combined,
\* api_call_count['total'] is at most max_api_calls.
C2_CounterWithinLimit ==
    api_call_count <= config.max_api_calls

\* a run that used its whole budget over more than one topic
C2_Witness ==
    /\ api_call_count = config.max_api_calls
    /\ config.max_api_calls = MaxApiCalls
    /\ calls[1] > 0
    /\ calls[2] > 0

\* C3: once a call made for topic i is classified RateLimited, no provider
\* call is issued for a later topic of the run.
C3_NoCallAfterRateLimit ==
    (~ CombinedMode /\ rate_limited_at # 0) =>
        \A t \in topics_list : t > rate_limited_at => calls[t] = 0

\* topic 1 was rate limited with budget to spare, topic 2 was processed to
\* its end without a call
C3_Witness ==
    /\ ~ CombinedMode
    /\ rate_limited_at = 1
    /\ ~ LimitReached(api_call_count)
    /\ phase[2] = "done"
    /\ calls[2] = 0
    /\ last.topic = 2

\* C5: save is never invoked with an empty collection for a topic whose cache
\* is non-empty and whose fetch brought no new article, and such a topic's
\* file does not end up empty unless the write itself failed.
C5_NoEmptySaveOverCache ==
    (last.topic # 0 /\ last.cached > 0 /\ ~ last.had_new) =>
        /\ last.invoked => saved # <<>>
        /\ last.ok => load_existing_news(file[last.topic]) # <<>>

\* a topic whose request failed and whose cache retention would have emptied:
\* update_news_file was not invoked
C5_Witness ==
    /\ last.topic = 1
    /\ last.cached > 0
    /\ ~ last.had_new
    /\ ~ last.invoked
    /\ calls[1] > 0
    /\ config.retention_days > 0

\* the step that completes merge_filter_and_save_articles for topic idx
SavingStep == pc \in {"merge", "combined_save"}

\* what retention leaves of the cache of topic idx
KeptOfCache == filter_articles_by_retention(existing_articles[idx], config.retention_days)

\* a topic processed after the topic that was rate limited
AfterRateLimit == pc = "merge" /\ rate_limited_at # 0 /\ idx > rate_limited_at

C6_AsClaimed ==
    [][ (SavingStep /\ existing_articles[idx] # <<>> /\ new_articles[idx] = <<>>
           /\ last'.ok) =>
            /\ MergedArticles(existing_articles[idx], new_articles[idx])
                 = existing_articles[idx]
            /\ load_existing_news(file'[idx]) = existing_articles[idx] ]_vars

\* C6, amended: no new articles and a non-empty cache: the merged set is the
\* cached set; what is saved is the cached set without the articles retention
\* drops; the file is unchanged when retention drops none of the cached
\* articles, and untouched when it drops all of them.
C6_FailedFetchKeepsRetainedCache ==
    [][ (SavingStep /\ existing_articles[idx] # <<>> /\ new_articles[idx] = <<>>) =>
          /\ MergedArticles(existing_articles[idx], new_articles[idx])
               = existing_articles[idx]
          /\ KeptOfCache # <<>> =>
                /\ saved' = KeptOfCache
                /\ last'.ok => file'[idx] = FileOf(SortByDateDesc(KeptOfCache))
          /\ KeptOfCache = <<>> => file'[idx] = file[idx]
          /\ (last'.ok /\ KeptOfCache = existing_articles[idx]) =>
                load_existing_news(file'[idx]) = existing_articles[idx] ]_vars

\* a request was made for topic 1 and brought nothing; its cache of a recent
\* and an old article was saved as the recent article alone
C6_Witness ==
    /\ last.topic = 1
    /\ calls[1] > 0
    /\ rate_limited_at = 0
    /\ last.cached = 2
    /\ ~ last.had_new
    /\ last.invoked /\ last.ok
    /\ Len(load_existing_news(file[1])) = 1

\* the records of a list, and the positions of a url in it
RecordsOf(items) == {items[i] : i \in 1..Len(items)}

PositionsOf(url, items) == {i \in 1..Len(items) : items[i].url = url}

\* the last record a list holds for a url
LastWithUrl(url, items) ==
    items[CHOOSE i \in PositionsOf(url, items) :
             \A j \in PositionsOf(url, items) : j <= i]

\* C7: for every url present in both the cached and the fetched set,
\* merge_news_articles returns exactly one record with that url, the freshly
\* fetched version.
C7_FreshVersionWins ==
    u_op = "merge" =>
        \A url \in (UrlsOf(u_existing) \cap UrlsOf(u_new)) \ {""} :
            /\ Cardinality(PositionsOf(url, u_result)) = 1
            /\ \A i \in PositionsOf(url, u_result) :
                  /\ u_result[i] = LastWithUrl(url, u_new)
                  /\ u_result[i] \notin RecordsOf(u_existing)

\* a url cached and fetched with different dates, merged
C7_Witness ==
    /\ u_op = "merge"
    /\ \E i \in 1..Len(u_existing), j \in 1..Len(u_new) :
          /\ u_existing[i].url = "a"
          /\ u_new[j].url = "a"
          /\ u_existing[i].date # u_new[j].date
    /\ Len(u_result) >= 2

\* C8: the merge result is the union of both sets keyed by url (every url of
\* either input exactly once, no other record), ordered by date descending.
\* A record without url has no key and is in neither set.
C8_UnionSortedByDate ==
    u_op = "merge" =>
        /\ UrlsOf(u_result) = (UrlsOf(u_existing) \cup UrlsOf(u_new)) \ {""}
        /\ DistinctUrls(u_result)
        /\ RecordsOf(u_result) \subseteq RecordsOf(u_existing) \cup RecordsOf(u_new)
        /\ \A i, j \in 1..Len(u_result) :
              i < j => DateKey(u_result[i]) >= DateKey(u_result[j])

\* inputs that arrive older-first, with a record without url among them, and
\* a result of two dates
C8_Witness ==
    /\ u_op = "merge"
    /\ Len(u_existing) = 2
    /\ u_existing[1].date < u_existing[2].date
    /\ "" \in UrlsOf(u_new)
    /\ Len(u_result) = 2
    /\ u_result[1].date > u_result[2].date

\* C9 as claimed: for every R >= 0 the result is exactly the articles dated
\* today - R or later together with the articles whose date fails to parse.
C9_ClaimedKept(item) ==
    \/ ~ ParsesAsDate(item.date)
    \/ item.date >= Today - u_retention_days

C9_AsClaimed ==
    (u_op = "retention" /\ u_retention_days >= 0) =>
        u_result = SelectSeq(u_existing, C9_ClaimedKept)

\* C9, amended: for every R > 0 the result is exactly the articles dated
\* today - R or later together with the articles whose non-empty date fails
\* to parse; an article with a missing or empty date is dropped; for R <= 0
\* the input is returned unchanged.
C9_Kept(item) ==
    \/ item.date \in Days /\ item.date >= Today - u_retention_days
    \/ item.date # EmptyDate /\ item.date \notin Days

C9_RetentionExact ==
    u_op = "retention" =>
        IF u_retention_days > 0
        THEN u_result = SelectSeq(u_existing, C9_Kept)
        ELSE u_result = u_existing

\* a positive window over an article at the cutoff and one that is older
C9_Witness ==
    /\ u_op = "retention"
    /\ u_retention_days > 0
    /\ Len(u_existing) = 2
    /\ u_existing[1].date = Today - u_retention_days
    /\ u_existing[2].date = Today - u_retention_days - 1
    /\ u_existing[2].date \in Days
    /\ u_result = << u_existing[1] >>

\* C10: merge, retention and save run twice in succession for a topic with
\* no new articles and the same day: the second run leaves the file as the
\* first run left it (the writes not failing).
C10_SecondRunIdempotent ==
    [][ (SavingStep /\ stable[idx] /\ new_articles[idx] = <<>> /\ last'.ok) =>
            file'[idx] = file[idx] ]_vars

\* the second of two runs rewrote a cache of two articles that the first run
\* had already written
C10_Witness ==
    /\ runs_left = 0
    /\ last.was_stable
    /\ ~ last.had_new
    /\ last.invoked /\ last.ok
    /\ last.cached = 2

\* ------------------------------------------------------------------------
\* A run that is interrupted (the process is killed).  update_news_file
\* writes in place: open(file_path, 'w') empties the file and yaml.dump then
\* streams the text into it, so a run interrupted in between leaves a text
\* that is not the collection.  The locals of the interrupted step stay as
\* they were in memory.
\* ------------------------------------------------------------------------
Crash ==
    /\ pc \notin {"idle", "crashed"}
    /\ pc' = "crashed"
    /\ \/ UNCHANGED file
       \/ /\ SavingStep
          /\ SaveInvoked(existing_articles[idx],
                         FilteredArticles(existing_articles[idx], new_articles[idx],
                                          config.retention_days))
          /\ file' = [file EXCEPT ![idx] = CorruptFile]
    /\ UNCHANGED << config, feed, runs_left, idx, api_call_count, rate_limited_flag,
                    error_count, existing_articles, new_articles, is_rate_limited,
                    fetch, phase, calls, rate_limited_at, saved, last, stable,
                    result_limit, http_requests >>
    /\ UNCHANGED unit_vars

NextCrash == Next \/ Crash

SpecCrash == Init /\ [][NextCrash]_vars

\* C11 as claimed: at every point where a run is interrupted, every topic's
\* file is a complete collection, and the file of the topic in progress
\* holds either the collection it held before the run or its new collection.
C11_AsClaimed ==
    pc = "crashed" =>
        /\ \A t \in topics_list : file[t].kind # "corrupt"
        /\ phase[idx] = "loaded" =>
              \/ load_existing_news(file[idx]) = existing_articles[idx]
              \/ file[idx] = FileOf(SortByDateDesc(
                     FilteredArticles(existing_articles[idx], new_articles[idx],
                                      config.retention_days)))

\* C12: when the first page of a topic's fetch is rate limited,
\* fetch_from_newsapi returns no article together with the rate-limited
\* signal, and the shared flag is set before the next topic is considered.
C12_FirstPageRateLimited ==
    /\ (pc = "merge" /\ rate_limited_at = idx /\ fetch.issued = 1) =>
          /\ new_articles[idx] = <<>>
          /\ is_rate_limited
    /\ (pc = "topic" /\ rate_limited_at # 0) => rate_limited_flag

\* the second topic is about to be considered after the first topic's only
\* request was rate limited
C12_Witness ==
    /\ pc = "topic"
    /\ idx = 2
    /\ rate_limited_at = 1
    /\ calls[1] = 1
    /\ rate_limited_flag
    /\ ~ LimitReached(api_call_count)

\* C13: a fetch that starts when no call budget remains (calls used >=
\* max_api_calls) stops at once: no provider call, the counter unchanged, an
\* empty result that is neither rate limited nor an error.
C13_NoBudgetNoCall ==
    [][ /\ (pc = "topic" /\ api_call_count >= config.max_api_calls) =>
              /\ pc' = "merge"
              /\ api_call_count' = api_call_count
              /\ calls' = calls
              /\ fetch'.issued = 0
              /\ new_articles'[idx] = <<>>
              /\ ~ is_rate_limited'
              /\ rate_limited_flag' = rate_limited_flag
              /\ error_count' = error_count
        /\ (pc = "idle" /\ CombinedMode /\ 0 >= config.max_api_calls) =>
              /\ pc' = "combined_save"
              /\ api_call_count' = 0
              /\ calls'[0] = 0
              /\ new_articles' = NoArticles
              /\ ~ is_rate_limited'
              /\ ~ rate_limited_flag'
              /\ error_count' = 0 ]_vars

\* the first topic's fetch found no budget and its cache goes on to the merge
C13_Witness ==
    /\ pc = "merge"
    /\ idx = 1
    /\ phase[1] = "loaded"
    /\ api_call_count >= config.max_api_calls
    /\ config.free_tier_mode
    /\ calls[1] = 0
    /\ existing_articles[1] # <<>>
    /\ new_articles[1] = <<>>
    /\ ~ is_rate_limited

\* a provider call of fetch_from_newsapi whose outcome is ResultLimitReached
\* with articles carried in the error body
CarriedResultLimit ==
    /\ pc \in {"first_page", "next_page"}
    /\ result_limit'.reached
    /\ result_limit'.carried

\* C14 as claimed: on any page, first or later, whose outcome is
\* ResultLimitReached with carried articles, the carried articles are
\* processed into the accumulation, no further page is requested, and the
\* outcome is not an error.
C14_AsClaimed ==
    [][ CarriedResultLimit =>
          /\ pc' = "merge"
          /\ new_articles'[idx] = SortByDateDesc(result_limit'.processed)
          /\ ~ is_rate_limited'
          /\ error_count' = error_count ]_vars

\* C15: a ResultLimitReached outcome is a normal stop: the articles
\* accumulated from the earlier pages are returned, the rate-limited flag is
\* not set, and the next topic still performs its own fetch.
C15_ResultLimitIsNormalStop ==
    [][ /\ (pc = "next_page" /\ result_limit'.reached) =>
              /\ pc' = "merge"
              /\ new_articles'[idx] = SortByDateDesc(fetch.news_items)
              /\ ~ is_rate_limited'
              /\ rate_limited_flag' = rate_limited_flag
        /\ (pc = "first_page" /\ result_limit'.reached) =>
              /\ ~ is_rate_limited'
              /\ rate_limited_flag' = rate_limited_flag
        /\ (/\ pc = "topic"
            /\ result_limit.reached
            /\ api_call_count < config.max_api_calls) =>
              /\ ~ rate_limited_flag
              /\ pc' = "first_page" ]_vars

\* the second topic is in its own fetch after the first topic's second page
\* hit the result limit with an article accumulated from its first page
C15_Witness ==
    /\ pc = "first_page"
    /\ idx = 2
    /\ result_limit.reached
    /\ result_limit.page = 2
    /\ calls[1] = 2
    /\ last.topic = 1
    /\ last.had_new
    /\ ~ rate_limited_flag

\* C16: a RateLimited response is never retried: every make_api_request
\* issues exactly one HTTP request whatever its outcome, and after a
\* RateLimited outcome nothing more is requested for that topic (for the
\* combined request) in the run.
C16_RateLimitedNeverRetried ==
    [][ /\ http_requests' - http_requests = api_call_count' - api_call_count
        /\ rate_limited_at # 0 =>
              /\ http_requests' = http_requests
              /\ calls'[IF CombinedMode THEN 0 ELSE rate_limited_at]
                    = calls[IF CombinedMode THEN 0 ELSE rate_limited_at] ]_vars

\* the run went on to the second topic after the second request of the
\* first topic was rate limited: two provider calls, two HTTP requests
C16_Witness ==
    /\ rate_limited_at = 1
    /\ calls[1] = 2
    /\ http_requests = 2
    /\ phase[2] = "done"
    /\ api_call_count < config.max_api_calls

\* the outcome kind of what make_api_request returned
KindOf(outcome) ==
    IF outcome.is_rate_limited THEN "RateLimited"
    ELSE IF outcome.is_result_limit_reached THEN "ResultLimitReached"
    ELSE IF outcome.success THEN "Success"
    ELSE "Failure"

\* an HTTP error response: raise_for_status raised
IsErrorResponse(http) == http.raises = "none" /\ http.status_code \in ErrorStatusCodes

\* C17: the classification of an HTTP error response depends on its body
\* alone: the same body under any other error status code gives the same
\* outcome kind (RateLimited, ResultLimitReached or Failure).
C17_ClassifiedByContent ==
    (u_op = "request" /\ IsErrorResponse(u_http)) =>
        /\ KindOf(u_outcome) \in {"RateLimited", "ResultLimitReached", "Failure"}
        /\ \A status_code \in ErrorStatusCodes :
              KindOf(make_api_request([u_http EXCEPT !.status_code = status_code]))
                 = KindOf(u_outcome)

\* a 400 response classified RateLimited by the words of its message
C17_Witness ==
    /\ u_op = "request"
    /\ u_http.raises = "none"
    /\ u_http.status_code = 400
    /\ u_http.body.format = "dict"
    /\ u_http.body.code = "apiKeyInvalid"
    /\ u_http.body.message = <<"Too", "many", "requests">>
    /\ KindOf(u_outcome) = "RateLimited"

C19_AsClaimed ==
    pc = "next_page" => Len(fetch.news_items) < config.min_articles_per_topic

\* the records of a page whose url was already seen in this fetch cycle:
\* seen_urls holds the urls accepted so far, the page's earlier ones included
RECURSIVE DuplicatesOnPage(_, _, _)
DuplicatesOnPage(news_items, articles, exact_phrase) ==
    IF articles = <<>> THEN 0
    ELSE LET processed == process_article(Head(articles), exact_phrase, UrlsOf(news_items))
         IN  (IF Head(articles).url \in UrlsOf(news_items) THEN 1 ELSE 0)
             + DuplicatesOnPage(IF processed # Rejected THEN Append(news_items, processed)
                                ELSE news_items,
                                Tail(articles), exact_phrase)

\* ------------------------------------------------------------------------
\* C20: pagination stops after any page whose duplicate fraction (the share
\* of its records whose url was already seen in this fetch cycle) is at
\* least the configured threshold: a provider call that delivers such a
\* page is never followed by the request of a further page.
\* ------------------------------------------------------------------------
C20_AsClaimed ==
    [][ \A p \in {"first_page", "next_page"} :
          (/\ pc = p
           /\ pc' = "next_page"
           /\ fetch'.articles # <<>>)
          => 10 * DuplicatesOnPage(fetch.news_items, fetch'.articles,
                                   news_sources[idx].title_query)
               < config.early_stop_duplicate_threshold * Len(fetch'.articles) ]_vars

\* ------------------------------------------------------------------------
\* A run in per-topic mode, and a run in combined mode: main() takes one of
\* the two branches for the whole run
\* ------------------------------------------------------------------------
NextPerTopic ==
    \/ StartRun
    \/ ProcessTopicBegin
    \/ FetchFirstPage
    \/ FetchNextPage
    \/ MergeFilterSave

NextCombined ==
    \/ StartRun
    \/ FetchCombined
    \/ SaveCombined

\* the example of the pagination budget: more pages configured than calls
\* left (5 against 2 in the example), and a provider that may report more
\* pages still (totalResults 250 at 100 a page: three pages)
BudgetExampleConfigs ==
    [ max_api_calls : {2},
      max_pages : {MaxPages + 1},
      free_tier_mode : {FALSE},
      retention_days : {0, RetentionDays},
      min_articles_per_topic : {MaxLen},
      early_stop_duplicate_threshold : {5, early_stop_duplicate_threshold},
      combine_topics : {FALSE},
      api_key : {TRUE} ]

InitBudgetExample ==
    /\ BeforeRun
    /\ UnitIdle
    /\ config \in BudgetExampleConfigs
    /\ feed = "news"
    /\ runs_left = 1

SpecBudgetExample == InitBudgetExample /\ [][NextPerTopic]_vars

\* the fetch of the example: two calls left, more pages configured
BudgetExample ==
    /\ fetch.remaining_calls = 2
    /\ fetch.configured_pages > fetch.remaining_calls

\* ------------------------------------------------------------------------
\* C21: with more pages configured than the two calls left and a provider
\* reporting three pages of results (totalResults 250 at 100 a page),
\* fetch_from_newsapi issues exactly two provider calls: the page limit is
\* the two calls left, the reported pages are capped to it, the second page
\* is requested, and no third.
\* ------------------------------------------------------------------------
C21_ExactlyTwoCalls ==
    [][ BudgetExample =>
          /\ fetch.max_pages = 2
          /\ TotalPagesUncapped(MaxPages * max_page_size + 1, fetch.max_pages) > 2
          /\ TotalPages(MaxPages * max_page_size + 1, fetch.max_pages) = 2
          /\ (pc = "first_page" /\ pc' = "next_page") =>
                /\ fetch'.total_pages = 2
                /\ fetch'.page = 2
                /\ fetch'.issued = 1
          /\ (pc = "first_page" /\ fetch'.total_pages = 2) => pc' = "next_page"
          /\ (pc = "first_page" /\ pc' = "merge") => fetch'.total_pages < 2
          /\ pc = "next_page" =>
                /\ pc' = "merge"
                /\ fetch'.issued = 2
                /\ api_call_count' = api_call_count + 1 ]_vars

\* the fetch of the first topic ended after its second call: three pages
\* were configured, the provider reported more than one, two calls were left
C21_Witness ==
    /\ pc = "merge"
    /\ idx = 1
    /\ BudgetExample
    /\ fetch.configured_pages = MaxPages + 1
    /\ fetch.total_pages = 2
    /\ fetch.issued = 2
    /\ api_call_count = config.max_api_calls

\* ------------------------------------------------------------------------
\* article_matches_exact_phrase on texts.  A text is the sequence of its
\* characters: letters (a run of letters is a word), the blank and the
\* hyphen.  The pattern is  \b + re.escape(phrase) with every blank turned
\* into \s+  + \b, searched with re.IGNORECASE.
\* ------------------------------------------------------------------------
MaxTitleLen == 5

\* the characters of a text: letters, the blank, the hyphen
TitleChars == {"d", "D", "l", "x", " ", "-"}

\* \w and \s
IsWordChar(c) == c \notin {" ", "-"}

IsWhitespace(c) == c = " "

\* re.IGNORECASE compares the characters without regard to case
IgnoreCase(c) == IF c = "D" THEN "d" ELSE c

IgnoreCaseAll(text) == [i \in 1..Len(text) |-> IgnoreCase(text[i])]

WordAt(text, p) == p \in 1..Len(text) /\ IsWordChar(text[p])

WordBoundaryAnywhere(text, p) == TRUE

\* \b before position p: a word character on exactly one side
WordBoundary(text, p) == WordAt(text, p - 1) # WordAt(text, p)

\* re.escape(exact_phrase).replace('\\ ', r'\s+'): the letters and the
\* hyphen stand for themselves, every blank becomes \s+
PhrasePattern(exact_phrase) ==
    [i \in 1..Len(exact_phrase) |->
        IF exact_phrase[i] = " " THEN "\\s+" ELSE exact_phrase[i]]

\* the pattern elements, then \b, match text from position p on
RECURSIVE MatchesAt(_, _, _)
MatchesAt(text, p, pattern) ==
    IF pattern = <<>> THEN WordBoundary(text, p)
    ELSE IF Head(pattern) = "\\s+"
    THEN \E q \in (p + 1)..(Len(text) + 1) :
            /\ \A k \in p..(q - 1) : IsWhitespace(text[k])
            /\ MatchesAt(text, q, Tail(pattern))
    ELSE /\ p <= Len(text)
         /\ IgnoreCase(text[p]) = IgnoreCase(Head(pattern))
         /\ MatchesAt(text, p + 1, Tail(pattern))

\* re.search(r'\b' + .. + r'\b', text, re.IGNORECASE)
re_search(pattern, text) ==
    \E p \in 1..(Len(text) + 1) : WordBoundary(text, p) /\ MatchesAt(text, p, pattern)

\* article_matches_exact_phrase, the title and the phrase being texts
TitleMatchesExactPhrase(article_title, exact_phrase) ==
    /\ article_title # <<>>
    /\ re_search(PhrasePattern(exact_phrase), article_title)

\* title_query of a topic: words with one blank between them
Phrases == { <<"d", " ", "l">>, <<"D", " ", "l">>, <<"d">> }

InitPhrase ==
    /\ RunIdle
    /\ u_existing = <<>>
    /\ u_new = <<>>
    /\ u_retention_days = 0
    /\ u_op = "none"
    /\ u_result = <<>>
    /\ u_http = NoExchange
    /\ u_outcome = NoOutcome
    /\ u_title \in UNION { [1..n -> TitleChars] : n \in 0..MaxTitleLen }
    /\ u_phrase \in Phrases
    /\ u_match = FALSE

ApplyPhrase ==
    /\ u_op = "none"
    /\ u_match' = TitleMatchesExactPhrase(u_title, u_phrase)
    /\ u_op' = "match"
    /\ UNCHANGED << u_existing, u_new, u_retention_days, u_result, u_http, u_outcome,
                    u_title, u_phrase >>
    /\ UNCHANGED run_vars

SpecPhrase == InitPhrase /\ [][ApplyPhrase]_vars

\* a text with every run of blanks made one blank
RECURSIVE Squeezed(_)
Squeezed(text) ==
    IF text = <<>> THEN <<>>
    ELSE IF Len(text) > 1 /\ IsWhitespace(text[1]) /\ IsWhitespace(text[2])
    THEN Squeezed(Tail(text))
    ELSE <<Head(text)>> \o Squeezed(Tail(text))

\* title[i..j] is the phrase but for case and the width of its blanks, and no
\* letter touches it on either side
PhraseRunAt(title, i, j, phrase) ==
    /\ i <= j
    /\ ~ WordAt(title, i - 1)
    /\ ~ WordAt(title, j + 1)
    /\ Squeezed(IgnoreCaseAll(SubSeq(title, i, j))) = IgnoreCaseAll(phrase)

\* the words of a text whose words are single letters
WordsOfText(text) == SelectSeq(text, LAMBDA c : ~ IsWhitespace(c))

\* the phrase's words all occur in the title, in order, as words of their
\* own, with at least one other word between two of them
RECURSIVE IsSubsequence(_, _)
IsSubsequence(words, of) ==
    IF words = <<>> THEN TRUE
    ELSE IF of = <<>> THEN FALSE
    ELSE IF IgnoreCase(Head(words)) = IgnoreCase(Head(of))
    THEN IsSubsequence(Tail(words), Tail(of))
    ELSE IsSubsequence(words, Tail(of))

\* a title of single-letter words set apart by single blanks
IsSpelledOut(title) ==
    \A k \in 1..Len(title) :
        IF k % 2 = 1 THEN ~ IsWhitespace(title[k])
        ELSE IsWhitespace(title[k]) /\ k < Len(title)

Scattered(title, phrase) ==
    /\ IsSpelledOut(title)
    /\ IsSubsequence(WordsOfText(phrase), WordsOfText(title))
    /\ ~ \E i \in 1..Len(WordsOfText(title)) :
            /\ i + Len(WordsOfText(phrase)) - 1 <= Len(WordsOfText(title))
            /\ SubSeq(IgnoreCaseAll(WordsOfText(title)), i, i + Len(WordsOfText(phrase)) - 1)
                  = IgnoreCaseAll(WordsOfText(phrase))

\* ------------------------------------------------------------------------
\* C22: the phrase match is case-insensitive and requires the phrase to
\* occur in the title as a contiguous, word-bounded run of words: a title
\* matches exactly when some stretch of it is the phrase but for case and
\* the width of its blanks, with no letter touching it; a title that
\* contains the words of the phrase set apart by other words never matches;
\* and on titles of whole words the matcher on word sequences that the
\* pipeline uses gives the same verdict.
\* ------------------------------------------------------------------------
C22_PhraseMatch ==
    u_op = "match" =>
        /\ u_match <=> \E i, j \in 1..Len(u_title) : PhraseRunAt(u_title, i, j, u_phrase)
        /\ u_match = TitleMatchesExactPhrase(IgnoreCaseAll(u_title), IgnoreCaseAll(u_phrase))
        /\ Scattered(u_title, u_phrase) => ~ u_match
        /\ IsSpelledOut(u_title) =>
              u_match = article_matches_exact_phrase([title |-> WordsOfText(u_title)],
                                                     WordsOfText(u_phrase))

\* "D x l" holds both words of "d l", a word between them: no match
C22_Witness ==
    /\ u_op = "match"
    /\ u_title = <<"D", " ", "x", " ", "l">>
    /\ u_phrase = <<"d", " ", "l">>
    /\ Scattered(u_title, u_phrase)
    /\ ~ u_match

\* ------------------------------------------------------------------------
\* The routing loop of fetch_combined_from_newsapi on its own: the articles
\* of the combined response, with titles that satisfy one phrase, both
\* phrases (the second topic's first) or none, with and without url
\* ------------------------------------------------------------------------
CombinedArticles ==
    [ url : {"", "a", "b"},
      title : { <<"Deep", "Learning">>, <<"machine", "learning">>,
                <<"Machine", "learning", "Deep", "learning">>,
                <<"Deep", "machine">>, <<>> },
      publishedAt : {<<1, 0>>} ]

InitRoute ==
    /\ RunIdle
    /\ u_existing = <<>>
    /\ u_new \in SeqsUpTo(CombinedArticles)
    /\ u_retention_days = 0
    /\ u_op = "none"
    /\ u_result = <<>>
    /\ u_http = NoExchange
    /\ u_outcome = NoOutcome
    /\ TextIdle

\* "for article in articles: route, process, append", then the sort of every
\* topic's list
ApplyRoute ==
    /\ u_op = "none"
    /\ u_result' = [t \in topics_list |-> SortByDateDesc(RoutePage(NoArticles, u_new)[t])]
    /\ u_op' = "route"
    /\ UNCHANGED << u_existing, u_new, u_retention_days, u_http, u_outcome,
                    u_title, u_phrase, u_match >>
    /\ UNCHANGED run_vars

SpecRoute == InitRoute /\ [][ApplyRoute]_vars

\* the topics whose phrase the title satisfies
SatisfiedTopics(title) ==
    { t \in topics_list :
        article_matches_exact_phrase([title |-> title], news_sources[t].title_query) }

\* the records of the page that appear in the list of topic t
RoutedTo(t, article) ==
    \E i \in 1..Len(u_result[t]) :
        /\ u_result[t][i].url = article.url
        /\ u_result[t][i].title = article.title

\* ------------------------------------------------------------------------
\* C23: in combined mode every article of a topic's result is an article of
\* the response whose title satisfies that topic's phrase and no earlier
\* topic's; no article is in two topics' results; an article whose title
\* satisfies no phrase is in no result; and an article with url and title
\* whose title satisfies a phrase is in the result of the first such topic
\* (its url is, when the response repeats the url).
\* ------------------------------------------------------------------------
C23_RoutedToFirstTopic ==
    u_op = "route" =>
        /\ \A t \in topics_list : \A i \in 1..Len(u_result[t]) :
              /\ t \in SatisfiedTopics(u_result[t][i].title)
              /\ \A earlier \in SatisfiedTopics(u_result[t][i].title) : t <= earlier
              /\ \E k \in 1..Len(u_new) :
                    /\ u_new[k].url = u_result[t][i].url
                    /\ u_new[k].title = u_result[t][i].title
        /\ \A k \in 1..Len(u_new) :
              /\ Cardinality({ t \in topics_list : RoutedTo(t, u_new[k]) }) <= 1
              /\ SatisfiedTopics(u_new[k].title) = {} =>
                    \A t \in topics_list : ~ RoutedTo(t, u_new[k])
              /\ (u_new[k].url # "" /\ SatisfiedTopics(u_new[k].title) # {}) =>
                    \E t \in SatisfiedTopics(u_new[k].title) :
                        /\ \A other \in SatisfiedTopics(u_new[k].title) : t <= other
                        /\ u_new[k].url \in UrlsOf(u_result[t])

\* a title that satisfies both phrases went to the first topic, a title that
\* satisfies none went nowhere
C23_Witness ==
    /\ u_op = "route"
    /\ Len(u_new) = 2
    /\ SatisfiedTopics(u_new[1].title) = topics_list
    /\ u_new[1].url = "a"
    /\ u_new[2].title = <<"Deep", "machine">>
    /\ u_new[2].url = "b"
    /\ Len(u_result[1]) = 1
    /\ u_result[2] = <<>>

\* ------------------------------------------------------------------------
\* process_article and the metrics: metrics.record_article_filtered(topic)
\* is called where the phrase check fails, after the validation of url,
\* title and seen_urls has let the record through
\* ------------------------------------------------------------------------
RecordsFiltered(article, exact_phrase, seen_urls) ==
    /\ ~ (article.url = "" \/ article.title = <<>> \/ article.url \in seen_urls)
    /\ ~ article_matches_exact_phrase(article, exact_phrase)

\* articles_filtered of the topic after the loop over one page
RECURSIVE ArticlesFiltered(_, _, _)
ArticlesFiltered(news_items, articles, exact_phrase) ==
    IF articles = <<>> THEN 0
    ELSE LET processed == process_article(Head(articles), exact_phrase, UrlsOf(news_items))
         IN  (IF RecordsFiltered(Head(articles), exact_phrase, UrlsOf(news_items))
              THEN 1 ELSE 0)
             + ArticlesFiltered(IF processed # Rejected THEN Append(news_items, processed)
                                ELSE news_items,
                                Tail(articles), exact_phrase)

\* the loop "for article in articles: process_article(..)" of the first
\* topic over one page, with a fresh MetricsTracker
ApplyProcess ==
    /\ u_op = "none"
    /\ u_result' = [ news_items |-> ProcessPage(<<>>, u_new, news_sources[1].title_query),
                     articles_filtered |->
                        ArticlesFiltered(<<>>, u_new, news_sources[1].title_query) ]
    /\ u_op' = "process"
    /\ UNCHANGED << u_existing, u_new, u_retention_days, u_http, u_outcome,
                    u_title, u_phrase, u_match >>
    /\ UNCHANGED run_vars

SpecProcess == InitRoute /\ [][ApplyProcess]_vars

\* ------------------------------------------------------------------------
\* C24: process_article rejects every record that lacks a url, lacks a
\* title or whose url was already seen in this fetch cycle, and each such
\* rejection is counted as filtered: after a page, no rejected record is
\* among the accepted ones and articles_filtered has grown by the number
\* of records rejected.
\* ------------------------------------------------------------------------
C24_AsClaimed ==
    u_op = "process" =>
        /\ \A i \in 1..Len(u_result.news_items) :
              /\ u_result.news_items[i].url # ""
              /\ u_result.news_items[i].title # <<>>
        /\ DistinctUrls(u_result.news_items)
        /\ u_result.articles_filtered = Len(u_new) - Len(u_result.news_items)

\* ------------------------------------------------------------------------
\* Runs of main() one after the other against a provider that has news,
\* starting without files: every file is what the runs before it wrote
\* ------------------------------------------------------------------------
NewsRunsConfigs ==
    [ max_api_calls : {2},
      max_pages : {MaxPages},
      free_tier_mode : {FALSE},
      retention_days : {0, RetentionDays},
      min_articles_per_topic : {MaxLen},
      early_stop_duplicate_threshold : {early_stop_duplicate_threshold},
      combine_topics : BOOLEAN,
      api_key : {TRUE} ]

InitNewsRuns ==
    /\ BeforeRun
    /\ UnitIdle
    /\ config \in NewsRunsConfigs
    /\ file = [t \in topics_list |-> MissingFile]
    /\ feed = "news"
    /\ runs_left = MaxRuns

SpecNewsRuns == InitNewsRuns /\ [][Next]_vars

\* every record has a title and a url, no two records share a url
WellFormed(items) ==
    /\ \A i \in 1..Len(items) : items[i].url # "" /\ items[i].title # <<>>
    /\ DistinctUrls(items)

\* ------------------------------------------------------------------------
\* C25: after any sequence of runs, every record written to a topic's
\* persisted collection has a non-empty title and a non-empty url, and no
\* two records of one topic's collection share a url: this holds of every
\* collection handed to update_news_file and of every file.
\* ------------------------------------------------------------------------
C25_StoredWellFormed ==
    /\ WellFormed(saved)
    /\ \A t \in topics_list : WellFormed(file[t].items)

\* the second run merged new articles into the cache the first run wrote
C25_Witness ==
    /\ runs_left = 0
    /\ pc = "idle"
    /\ last.topic # 0
    /\ last.cached > 0
    /\ last.had_new
    /\ last.invoked /\ last.ok
    /\ Len(file[last.topic].items) = 2

\* ------------------------------------------------------------------------
\* Topics that carry a priority (news_sources.<topic>.priority, lower number
\* = more important): main() takes list(news_sources.items()), the order of
\* the configuration, whatever the priorities say
\* ------------------------------------------------------------------------
PriorityConfigs ==
    [ max_api_calls : {MaxApiCalls},
      max_pages : {MaxPages},
      free_tier_mode : {FALSE},
      retention_days : {0},
      min_articles_per_topic : {MaxLen},
      early_stop_duplicate_threshold : {early_stop_duplicate_threshold},
      combine_topics : {FALSE},
      api_key : {TRUE},
      priority : [topics_list -> 1..Len(news_sources)] ]

InitPriority ==
    /\ BeforeRun
    /\ UnitIdle
    /\ config \in PriorityConfigs
    /\ feed = "news"
    /\ runs_left = 1

SpecPriority == InitPriority /\ [][NextPerTopic]_vars

\* the topic has been loaded and not yet saved
InProcess(t) == phase[t] = "loaded"

\* ------------------------------------------------------------------------
\* C26: in per-topic mode the topics of a run are processed one at a time in
\* priority order, lower priority number first: at most one topic is being
\* processed, and once a provider call has been issued for a topic, every
\* topic with a lower priority number has all its calls and its save behind
\* it.
\* ------------------------------------------------------------------------
C26_AsClaimed ==
    /\ Cardinality({ t \in topics_list : InProcess(t) }) <= 1
    /\ \A s, t \in topics_list :
         (config.priority[s] < config.priority[t] /\ calls[t] > 0)
             => phase[s] = "done"

\* what the code does instead: the order of the configuration
C26_ConfigOrder ==
    /\ Cardinality({ t \in topics_list : InProcess(t) }) <= 1
    /\ \A s, t \in topics_list :
         (s < t /\ (calls[t] > 0 \/ phase[t] # "idle")) => phase[s] = "done"

\* ------------------------------------------------------------------------
\* Loads, provider calls and writes of a topic, as steps of a run
\* ------------------------------------------------------------------------
\* this step calls load_existing_news for topic t
Loads(t) ==
    \/ pc = "topic" /\ idx = t
    \/ pc = "idle" /\ pc' # "idle" /\ CombinedMode

\* this step calls update_news_file for topic t
Writes(t) ==
    /\ pc \in {"merge", "combined_save"}
    /\ idx = t
    /\ last'.invoked

\* this step issues a provider call whose articles go to topic t
CallFeeding(t) == calls'[t] > calls[t] \/ calls'[0] > calls[0]

\* ------------------------------------------------------------------------
\* C27: within one run each topic's cache is loaded at most once and its file
\* is written at most once, and the write happens after that topic's load and
\* after every provider call whose results feed that topic: a load finds the
\* topic untouched in this run, a write finds it loaded and finishes it, only
\* a write changes the file, and a finished topic is neither loaded, fed by a
\* call nor written again in the run.
\* ------------------------------------------------------------------------
C27_LoadOnceWriteOnce ==
    [][ \A t \in topics_list :
          /\ Loads(t) => (pc = "idle" \/ phase[t] = "idle") /\ phase'[t] = "loaded"
          /\ Writes(t) => phase[t] = "loaded" /\ phase'[t] = "done"
          /\ file'[t] # file[t] => Writes(t)
          /\ (phase[t] = "done" /\ runs_left' = runs_left)
                => /\ phase'[t] = "done"
                   /\ ~ Loads(t) /\ ~ Writes(t) /\ ~ CallFeeding(t) ]_vars

\* both topics loaded, fetched (the first over two pages) and written
C27_Witness ==
    /\ pc = "idle"
    /\ runs_left = 0
    /\ \A t \in topics_list : phase[t] = "done"
    /\ calls[1] = 2 /\ calls[2] = 1
    /\ last.topic = 2 /\ last.invoked /\ last.ok /\ last.had_new /\ last.cached > 0

\* ------------------------------------------------------------------------
\* C28: a Failure outcome (network error, timeout or unclassified error)
\* stops pagination for the current topic only: the fetch returns at once
\* with what the earlier pages gave, no further page is requested for that
\* topic, the rate-limited flag is not set, and the next topic still enters
\* its own fetch while budget remains.
\* ------------------------------------------------------------------------
C28_FailureStopsThisTopicOnly ==
    [][ /\ (pc \in {"first_page", "next_page"} /\ result_limit'.failure) =>
              /\ pc' = "merge"
              /\ new_articles'[idx] = SortByDateDesc(fetch.news_items)
              /\ ~ is_rate_limited'
              /\ rate_limited_flag' = rate_limited_flag
        /\ (pc = "merge" /\ result_limit.failure) =>
              /\ calls' = calls
              /\ rate_limited_flag' = rate_limited_flag
        /\ (/\ pc = "topic"
            /\ result_limit.failure
            /\ api_call_count < config.max_api_calls) =>
              /\ ~ rate_limited_flag
              /\ pc' = "first_page" ]_vars

\* the second topic is in its own fetch after the first topic's second page
\* failed, the articles of its first page kept
C28_Witness ==
    /\ pc = "first_page"
    /\ idx = 2
    /\ result_limit.failure
    /\ calls[1] = 2
    /\ last.topic = 1
    /\ last.had_new
    /\ ~ rate_limited_flag

\* this step is a save of topic idx whose write failed
SaveFails ==
    /\ pc \in {"merge", "combined_save"}
    /\ last'.invoked
    /\ ~ last'.ok

\* where main goes after the save of topic idx, whatever the save returned
AfterSave ==
    IF pc = "merge"
    THEN IF LimitReached(api_call_count) \/ idx = Len(news_sources)
         THEN pc' = "idle" /\ idx' = idx
         ELSE pc' = "topic" /\ idx' = idx + 1
    ELSE IF idx = Len(news_sources)
         THEN pc' = "idle" /\ idx' = idx
         ELSE pc' = "combined_save" /\ idx' = idx + 1

\* ------------------------------------------------------------------------
\* C29: a persistence failure is topic-local: when the save of a topic's
\* collection fails, the run goes on with the remaining topics as after a
\* save that succeeded (nothing propagates, the failure is counted), no other
\* topic's file is touched, and the topic's last-known-good cache is
\* preserved: what load_existing_news reads from its file is what it read
\* before the save.
\* ------------------------------------------------------------------------
C29_AsClaimed ==
    [][ SaveFails =>
          /\ AfterSave
          /\ error_count' = error_count + 1
          /\ \A t \in topics_list :
                load_existing_news(file'[t]) = load_existing_news(file[t]) ]_vars

\* the part of C29 that the code keeps: the failure stays with the topic
C29_FailureStaysWithTopic ==
    [][ SaveFails =>
          /\ AfterSave
          /\ error_count' = error_count + 1
          /\ \A t \in topics_list \ {idx} : file'[t] = file[t] ]_vars

\* ------------------------------------------------------------------------
\* Runs of main() in combined mode, one after the other, starting without
\* files
\* ------------------------------------------------------------------------
InitCombined ==
    /\ BeforeRun
    /\ UnitIdle
    /\ config \in { c \in Configs : c.combine_topics }
    /\ file = [t \in topics_list |-> MissingFile]
    /\ feed = "news"
    /\ runs_left = MaxRuns

SpecCombined == InitCombined /\ [][NextCombined]_vars

\* ------------------------------------------------------------------------
\* C30: in combined mode a run issues at most one provider call in total,
\* whatever totalResults the provider reports, and that call's articles are
\* the only source of new articles for every topic: the calls of a run are
\* at most the one combined request, no topic has new articles before it,
\* and the new articles change only in the step of that request (and when
\* main's locals end).
\* ------------------------------------------------------------------------
C30_SingleCombinedCall ==
    [][ CombinedMode =>
          /\ api_call_count' <= 1
          /\ http_requests' <= 1
          /\ calls'[0] = api_call_count'
          /\ \A t \in topics_list : calls'[t] = 0
          /\ calls'[0] = 0 => new_articles' = NoArticles
          /\ new_articles' # new_articles =>
                \/ pc = "combined_fetch" /\ calls[0] = 0 /\ calls'[0] = 1
                \/ new_articles' = NoArticles ]_vars

\* the one call of a run brought an article for each topic
C30_Witness ==
    /\ CombinedMode
    /\ pc = "combined_save"
    /\ idx = 2
    /\ api_call_count = 1
    /\ calls[0] = 1
    /\ \A t \in topics_list : new_articles[t] # <<>>
    /\ config.max_api_calls > 1

\* retention keeps the article under the run's configuration
SurvivesRetention(article) ==
    filter_articles_by_retention(<< article >>, config.retention_days) # <<>>

\* ------------------------------------------------------------------------
\* C31: when a page after the first is classified RateLimited,
\* fetch_from_newsapi returns the articles accumulated from the earlier pages
\* together with the rate-limited signal, and those articles are merged into
\* the topic's collection although the run's fetching is halted: the flag is
\* raised, and every accumulated article that retention keeps is in the
\* collection handed to save and, the write not failing, in the file.
\* ------------------------------------------------------------------------
C31_LaterPageRateLimitedKeepsEarlier ==
    [][ /\ (pc = "next_page" /\ is_rate_limited') =>
              /\ pc' = "merge"
              /\ new_articles'[idx] = fetch.news_items
              /\ rate_limited_flag'
        /\ (pc = "merge" /\ is_rate_limited /\ fetch.issued > 1) =>
              /\ rate_limited_flag'
              /\ UrlsOf(new_articles[idx]) \subseteq
                    UrlsOf(MergedArticles(existing_articles[idx], new_articles[idx]))
              /\ \A i \in 1..Len(new_articles[idx]) :
                    SurvivesRetention(new_articles[idx][i]) =>
                       /\ last'.invoked
                       /\ new_articles[idx][i] \in RecordsOf(saved')
                       /\ last'.ok =>
                            new_articles[idx][i] \in RecordsOf(file'[idx].items) ]_vars

\* the first topic's second page was rate limited; the article of its first
\* page was saved and the second topic is next, the flag raised
C31_Witness ==
    /\ pc = "topic"
    /\ idx = 2
    /\ rate_limited_at = 1
    /\ calls[1] = 2
    /\ rate_limited_flag
    /\ last.topic = 1
    /\ last.had_new
    /\ last.invoked /\ last.ok
    /\ file[1].items # <<>>

\* responses delivered without an HTTP error whose body is an object with a
\* status other than "ok", whatever its code and message say
ErrorStatusResponses ==
    { http \in HttpExchanges :
        /\ http.raises = "none"
        /\ http.status_code < 400
        /\ http.body.format = "dict"
        /\ http.body.status # "ok" }

\* ------------------------------------------------------------------------
\* C32: a response delivered without an HTTP error whose body has a status
\* other than 'ok' stops pagination and is never reported as rate limited,
\* even when its message has rate-limit wording: make_api_request returns it
\* as a success with no signal, the fetch goes to the merge with the earlier
\* pages' articles, no call follows for the topic, the rate-limited flag
\* stays as it was, and the next topic enters its own fetch while budget
\* remains.
\* ------------------------------------------------------------------------
C32_ErrorStatusIsNotRateLimited ==
    [][ /\ (pc \in {"first_page", "next_page"} /\ result_limit'.error_status) =>
              /\ \A http \in ErrorStatusResponses :
                    /\ make_api_request(http).success
                    /\ ~ make_api_request(http).is_rate_limited
                    /\ ~ make_api_request(http).is_result_limit_reached
                    /\ make_api_request(http).response_data.status # "ok"
              /\ pc' = "merge"
              /\ new_articles'[idx] = SortByDateDesc(fetch.news_items)
              /\ ~ is_rate_limited'
              /\ rate_limited_flag' = rate_limited_flag
        /\ (pc = "merge" /\ result_limit.error_status) =>
              /\ calls' = calls
              /\ rate_limited_flag' = rate_limited_flag
        /\ (/\ pc = "topic"
            /\ result_limit.error_status
            /\ api_call_count < config.max_api_calls) =>
              /\ ~ rate_limited_flag
              /\ pc' = "first_page" ]_vars

\* the second topic is in its own fetch after the first topic's second page
\* came back with an error status, the articles of its first page kept
C32_Witness ==
    /\ pc = "first_page"
    /\ idx = 2
    /\ result_limit.error_status
    /\ calls[1] = 2
    /\ last.topic = 1
    /\ last.had_new
    /\ ~ rate_limited_flag
    /\ \E http \in ErrorStatusResponses :
          http.body.message = <<"Too", "many", "requests">>

\* ------------------------------------------------------------------------
\* C33: when the run counter has reached max_api_calls after a topic has
\* been processed in per-topic mode, main stops the loop: every remaining
\* topic is neither loaded, fetched nor saved, so its persisted file is left
\* untouched.  The save of a topic that finds the counter at the limit ends
\* the run; a topic that is not loaded sees no call and no change of its
\* file; and when the run has ended at the limit, the topics after the last
\* one processed were never loaded or called for.
\* ------------------------------------------------------------------------
C33_LimitStopsTheLoop ==
    [][ /\ (pc = "merge" /\ api_call_count >= config.max_api_calls) =>
              /\ pc' = "idle"
              /\ idx' = idx
        /\ \A t \in topics_list :
              (phase[t] = "idle" /\ phase'[t] = "idle") =>
                  /\ file'[t] = file[t]
                  /\ calls'[t] = 0
                  /\ existing_articles'[t] = <<>>
        /\ (/\ ~ CombinedMode
            /\ pc' = "idle"
            /\ api_call_count' >= config.max_api_calls) =>
              \A t \in topics_list :
                  t > idx' => phase'[t] = "idle" /\ calls'[t] = 0 ]_vars

\* the first topic used the whole budget of two calls; the run ended and the
\* second topic, which has a cache, was never loaded
C33_Witness ==
    /\ ~ CombinedMode
    /\ pc = "idle"
    /\ runs_left = 0
    /\ idx = 1
    /\ phase[1] = "done"
    /\ phase[2] = "idle"
    /\ calls[1] = 2
    /\ api_call_count = config.max_api_calls
    /\ file[2].items # <<>>

\* ------------------------------------------------------------------------
\* C34: filter_articles_by_retention with retention_days <= 0 returns its
\* input unchanged: as many articles, each at its place, whatever its age and
\* whatever its date.
\* ------------------------------------------------------------------------
C34_NoRetentionNoFilter ==
    (u_op = "retention" /\ u_retention_days <= 0) =>
        /\ Len(u_result) = Len(u_existing)
        /\ \A i \in 1..Len(u_existing) : u_result[i] = u_existing[i]

\* a window of zero days over an article older than today and an article
\* without date, both returned
C34_Witness ==
    /\ u_op = "retention"
    /\ u_retention_days = 0
    /\ Len(u_existing) = 2
    /\ u_existing[1].date \in Days /\ u_existing[1].date < Today
    /\ u_existing[2].date = EmptyDate
    /\ u_result = u_existing

\* the article's date is a non-empty text that does not parse
HasUnparsableDate(item) == item.date # EmptyDate /\ ~ ParsesAsDate(item.date)

\* ------------------------------------------------------------------------
\* C35: with retention_days > 0, filter_articles_by_retention removes every
\* article whose date is missing or empty, whereas an article with a
\* non-empty date that fails to parse is kept: the result holds no article
\* without date, and the articles with an unparsable date are those of the
\* input, in their order.
\* ------------------------------------------------------------------------
C35_UndatedDroppedUnparsableKept ==
    (u_op = "retention" /\ u_retention_days > 0) =>
        /\ \A i \in 1..Len(u_result) : u_result[i].date # EmptyDate
        /\ SelectSeq(u_result, HasUnparsableDate)
              = SelectSeq(u_existing, HasUnparsableDate)

\* an article without date and one whose date does not parse: the second
\* alone is returned
C35_Witness ==
    /\ u_op = "retention"
    /\ u_retention_days > 0
    /\ Len(u_existing) = 2
    /\ u_existing[1].date = EmptyDate
    /\ u_existing[2].date = InvalidDate
    /\ u_result = << u_existing[2] >>

\* every article of the list has a date older than the retention window
AllExpired(items) ==
    /\ config.retention_days > 0
    /\ \A i \in 1..Len(items) :
          /\ ParsesAsDate(items[i].date)
          /\ items[i].date < cutoff_date(config.retention_days)

\* ------------------------------------------------------------------------
\* C36: if every article of a topic's non-empty cache is older than the
\* retention window and the run brings no new article for the topic, save is
\* not invoked and the persisted file is left unchanged, so the expired
\* articles remain stored after the run; the topic counts as a success.
\* ------------------------------------------------------------------------
C36_ExpiredCacheStaysStored ==
    [][ (/\ SavingStep
         /\ existing_articles[idx] # <<>>
         /\ new_articles[idx] = <<>>
         /\ AllExpired(existing_articles[idx])) =>
            /\ ~ last'.invoked
            /\ saved' = saved
            /\ file' = file
            /\ load_existing_news(file'[idx]) = existing_articles[idx]
            /\ error_count' = error_count ]_vars

\* the first topic's request brought nothing and its cache holds expired
\* articles only: the file still holds them after the topic is done
C36_Witness ==
    /\ last.topic = 1
    /\ phase[1] = "done"
    /\ calls[1] > 0
    /\ last.cached > 0
    /\ ~ last.had_new
    /\ ~ last.invoked
    /\ file[1].items # <<>>
    /\ AllExpired(file[1].items)

\* the provider calls issued so far in the run, over the topics and the
\* combined request
RECURSIVE CallsIssued(_)
CallsIssued(t) == IF t = 0 THEN calls[0] ELSE calls[t] + CallsIssued(t - 1)

\* ------------------------------------------------------------------------
\* C37: at every point of a run the shared counter equals the number of
\* provider calls issued so far in that run, which is the number of HTTP
\* requests made: each issued call, whether it succeeds, fails or is rate
\* limited, increments the counter by exactly one, and a skipped fetch, like
\* every other step of the run, increments it by zero.
\* ------------------------------------------------------------------------
C37_CounterCountsCalls ==
    [][ /\ api_call_count = CallsIssued(Len(news_sources))
        /\ api_call_count = http_requests
        /\ api_call_count' = http_requests'
        /\ pc \in {"first_page", "next_page", "combined_fetch"} =>
              /\ api_call_count' = api_call_count + 1
              /\ http_requests' = http_requests + 1
        /\ pc \in {"topic", "merge", "combined_save"} =>
              /\ api_call_count' = api_call_count
              /\ http_requests' = http_requests ]_vars

\* three calls counted: two pages of the first topic and a rate-limited call
\* of the second
C37_Witness ==
    /\ pc = "merge"
    /\ idx = 2
    /\ calls[1] = 2
    /\ calls[2] = 1
    /\ is_rate_limited
    /\ api_call_count = 3
    /\ http_requests = 3

\* ------------------------------------------------------------------------
\* C38: within a run the shared run state is monotonic: the call counter
\* never decreases and the rate-limited flag, once set to true, is never
\* reset to false by any later topic or outcome.  (A new run starts with a
\* new counter and a new flag.)
\* ------------------------------------------------------------------------
C38_RunStateMonotonic ==
    [][ runs_left' = runs_left =>
          /\ api_call_count' >= api_call_count
          /\ rate_limited_flag => rate_limited_flag' ]_vars

\* in the second of two runs the first topic was rate limited and the second
\* topic has been processed with the flag still raised
C38_Witness ==
    /\ runs_left = 0
    /\ pc = "idle"
    /\ rate_limited_at = 1
    /\ rate_limited_flag
    /\ api_call_count = 1
    /\ phase[2] = "done"
    /\ last.topic = 2

\* the error body satisfies a rate-limit indicator and a result-limit
\* indicator at once: on code, message and str(error_data) of a JSON object
\* with a message, on the raw text of any other body
SatisfiesBothIndicators(http) ==
    LET body == http.body
        error_code == IF "code" \in body.nulls THEN "" ELSE body.code
        error_message == LowerAll(body.message)
        error_text == LowerAll(WordsOf(body))
    IN  IF body.format = "dict" /\ "message" \notin body.nulls
        THEN /\ _is_rate_limit_error(error_code, error_message, error_text,
                                     http.status_code)
             /\ _is_result_limit_error(error_code, error_message, error_text)
        ELSE /\ _is_rate_limit_error("", <<>>, error_text, http.status_code)
             /\ TextHasResultLimit(error_text)

\* the same, on what make_api_request examines of a body that is no JSON
\* object with a message: the raw text cut to max_error_text_length
ExaminedSatisfiesBothIndicators(http) ==
    IF http.body.format = "dict" /\ "message" \notin http.body.nulls
    THEN SatisfiesBothIndicators(http)
    ELSE /\ _is_rate_limit_error("", <<>>, LowerAll(ErrorText(http.body)),
                                 http.status_code)
         /\ TextHasResultLimit(LowerAll(ErrorText(http.body)))

\* ------------------------------------------------------------------------
\* C39: when an HTTP error body satisfies both a rate-limit indicator and a
\* result-limit indicator, make_api_request classifies the outcome as
\* RateLimited (no payload, the articles the body may carry discarded) and
\* never as ResultLimitReached; and whatever the exchange, the two outcome
\* flags are never both true.
\* ------------------------------------------------------------------------
C39_AsClaimed ==
    u_op = "request" =>
        /\ ~ (u_outcome.is_rate_limited /\ u_outcome.is_result_limit_reached)
        /\ (IsErrorResponse(u_http) /\ SatisfiesBothIndicators(u_http)) =>
              /\ u_outcome.is_rate_limited
              /\ ~ u_outcome.is_result_limit_reached
              /\ ~ u_outcome.success
              /\ u_outcome.response_data = NoData

\* the part of C39 that the code keeps: the rate limit wins wherever both
\* indicators are within what make_api_request examines, and the two flags
\* are never both true
C39_RateLimitWinsWhereExamined ==
    u_op = "request" =>
        /\ ~ (u_outcome.is_rate_limited /\ u_outcome.is_result_limit_reached)
        /\ (IsErrorResponse(u_http) /\ ExaminedSatisfiesBothIndicators(u_http)) =>
              /\ u_outcome.is_rate_limited
              /\ ~ u_outcome.is_result_limit_reached
              /\ ~ u_outcome.success
              /\ u_outcome.response_data = NoData

\* ------------------------------------------------------------------------
\* Termination.  main() is one sequential process; its steps are counted
\* down by a measure that every step lowers, so that no behaviour takes more
\* steps than the measure allows, with or without fairness.
\* ------------------------------------------------------------------------
TerminationConfigs ==
    [ max_api_calls : 0..MaxApiCalls,
      max_pages : {MaxPages},
      free_tier_mode : BOOLEAN,
      retention_days : {RetentionDays},
      min_articles_per_topic : {MaxLen},
      early_stop_duplicate_threshold : {early_stop_duplicate_threshold},
      combine_topics : BOOLEAN,
      api_key : {TRUE} ]

\* one run of main() under every budget of calls, in both modes, without
\* caches or over caches that hold a recent and an expired record
InitTermination ==
    /\ BeforeRun
    /\ UnitIdle
    /\ config \in TerminationConfigs
    /\ \E shape \in {"missing", "mixed"} :
          file = [t \in topics_list |-> InitialFile(t, shape)]
    /\ feed = "news"
    /\ runs_left = 1

SpecTermination == InitTermination /\ [][Next]_vars

\* main() is running, or has a run still to do
Running == pc # "idle" \/ runs_left > 0

\* the most pages a topic may be configured with
PageBound == MaxPages + 1

\* the steps left in the processing of the current topic, at most
PcRank ==
    CASE pc = "topic" -> PageBound + 3
      [] pc = "first_page" -> PageBound + 2
      [] pc = "combined_fetch" -> PageBound + 2
      [] pc = "next_page" -> 2 + fetch.total_pages - fetch.page
      [] pc = "merge" -> 1
      [] pc = "combined_save" -> 1
      [] OTHER -> 0

TopicRank == PageBound + 4

RunRank == Len(news_sources) * TopicRank + 1

\* the steps left to the program, at most
Measure ==
    runs_left * RunRank
      + (IF pc = "idle" THEN 0 ELSE (Len(news_sources) - idx) * TopicRank + PcRank)

\* how the processing of the topic of `last` ended
TopicSaved == last.invoked /\ last.ok
TopicCachePreserved == ~ last.invoked
TopicFailed == last.invoked /\ ~ last.ok

\* ------------------------------------------------------------------------
\* C40: every run terminates.  Whatever the provider answers, the run makes
\* at most max_api_calls provider calls; the pagination loop never asks for
\* a page beyond the pages counted after the first response nor beyond the
\* configured pages; every step lowers a measure that is a natural number,
\* so no run and no pagination loop goes on for ever; a program that has not
\* come to rest can always take its next step, so it stops nowhere but at
\* rest; every topic leaves processing in a terminal state (saved, cache
\* preserved as the file stays untouched, or failed); and at rest no topic
\* is left in processing.
\* ------------------------------------------------------------------------
C40_EveryRunTerminates ==
    /\ [](api_call_count <= config.max_api_calls)
    /\ [](pc = "next_page" =>
            /\ fetch.page <= fetch.total_pages
            /\ fetch.total_pages <= ConfiguredMaxPages(idx)
            /\ fetch.issued < fetch.page)
    /\ [](Measure \in Nat /\ Measure <= MaxRuns * RunRank)
    /\ [][Measure' < Measure]_vars
    /\ [](Running => ENABLED Next)
    /\ [](pc = "idle" => \A t \in topics_list : phase[t] # "loaded")
    /\ [][ \A t \in topics_list :
              (phase[t] = "loaded" /\ phase'[t] = "done") =>
                  /\ last'.topic = t
                  /\ TopicSaved' \/ TopicCachePreserved' \/ TopicFailed'
                  /\ TopicCachePreserved' => file'[t] = file[t] ]_vars

\* the run has ended after spending its whole budget of calls on two pages
\* of the first topic and a call of the second, whose save failed
C40_Witness ==
    /\ pc = "idle"
    /\ runs_left = 0
    /\ config.max_api_calls = MaxApiCalls
    /\ api_call_count = config.max_api_calls
    /\ calls[1] = 2
    /\ \A t \in topics_list : phase[t] = "done"
    /\ last.topic = 2
    /\ TopicFailed

====
